---- MODULE Spec2Model ----
(***************************************************************************)
(* Model of the handover plugin's knowledge store: the file lock           *)
(* (lib/lock.ts), the record store helpers (lib/file-utils.ts) and the     *)
(* KnowledgeStore mutators (lib/knowledge-store.ts), run by processes that *)
(* share one data directory.  Every file-system call of a handler is one   *)
(* step of the calling process, so that calls of different processes       *)
(* interleave as they do on a real file system.                            *)
(***************************************************************************)
EXTENDS Integers, Sequences, FiniteSets, TLC

VARIABLES
  now,        \* the wall clock, Date.now(), in ms
  marker,     \* the lock file <dataDir>/knowledge/.lock
  records,    \* the files of knowledge/entries: id -> entry
  unreadable, \* ids of entry files whose content does not parse
  index,      \* the file knowledge/index.json
  pc,         \* position of each process in the handler it runs
  op,         \* the call each process runs, with its arguments
  start,      \* acquire(): const start = Date.now()
  wake,       \* acquire(): the time the retry timer fires
  ent,        \* working entry of the running mutator
  idx,        \* index value the running mutator read and modified
  stamp,      \* timestamp the running mutator took (now / updatedAt)
  result,     \* what the last finished call of each process returned
  wrote,      \* history: the running call wrote an entry or index file
  snap,       \* history: entry files and index when the call started
  audit,      \* which history the specification records: off, snap, full
  calls,      \* number of calls made so far
  owns,       \* history: this call of acquire() created the lock file
  last,       \* history: the previous addEntry call that returned
  todo,       \* extractKnowledge: the entries still to be given to addEntry
  profile,    \* the file profile.json: the profile's sources
  calc,       \* a call of a pure function: its arguments and its result
  skills,     \* the skill files of the data directory, by skill id
  sessionFiles, \* the session files of the data directory, by session id
  current,    \* the agent's currentSession
  dest        \* migration: profile.json and feedback/history.jsonl of the new layout

vars == <<now, marker, records, unreadable, index, pc, op, start, wake,
          ent, idx, stamp, result, wrote, snap, audit, calls,
          owns, last, todo, profile, calc, skills, sessionFiles,
          current, dest>>

\* the state of the CLI front end and of the pure functions
\* the state of the skills, of the sessions and of the migration
sideVars == <<skills, sessionFiles, current, dest>>

extraVars == <<todo, profile, calc, sideVars>>

-----------------------------------------------------------------------------
(* Constants of the program and bounds of the model *)

LOCK_TIMEOUT_MS == 5000
LOCK_RETRY_MS == 50

\* the clock advances in steps of Quantum ms, up to MaxNow
Quantum == 3000
MaxNow == 9000

\* number of clock steps after which a call has waited LOCK_TIMEOUT_MS
TimeoutTicks == (LOCK_TIMEOUT_MS + Quantum - 1) \div Quantum

\* addEntry is not called once the index holds MaxIndexLen projections
MaxIndexLen == 3

\* the concurrent processes make MaxCalls calls in all
MaxCalls == 3

Procs == {"p1", "p2"}

-----------------------------------------------------------------------------
(* The lock file *)

NoMarker == [exists |-> FALSE, creator |-> "-", written |-> FALSE, time |-> 0]

\* positions inside FileLock.acquire()
AcquirePcs == {"loop", "check", "create", "write", "read", "unlinkStale",
               "unlinkCorrupt", "sleep"}

\* variant: acquire() without the stale-lock test
IsStaleNever(m, t) == FALSE

\* if (Date.now() - lockData.time > LOCK_TIMEOUT_MS)
IsStale(m, t) == t - m.time > LOCK_TIMEOUT_MS

-----------------------------------------------------------------------------
(* Knowledge entries and the index *)

\* String.prototype.toLowerCase on the letters used in titles
LowerChar(c) == CASE c = "A" -> "a"
                  [] c = "D" -> "d"
                  [] c = "T" -> "t"
                  [] OTHER -> c

ToLowerCase(s) == [i \in DOMAIN s |-> LowerChar(s[i])]

NullEntry == [id |-> "", title |-> <<>>, content |-> "", category |-> "other",
              tags |-> <<>>, source |-> [type |-> "manual", path |-> ""],
              confidence |-> 0]

toIndexEntry(e) == [id |-> e.id, title |-> e.title, category |-> e.category,
                    tags |-> e.tags, confidence |-> e.confidence]

\* readJSON of an entry file gives null when the file is absent or unparseable
Readable(recs, bad, id) == id \in DOMAIN recs /\ id \notin bad

\* the files getAllEntries() pushes: every file of the directory that parses
getAllEntries(recs, bad) == {id \in DOMAIN recs : id \notin bad}

SameKey(e, f) == /\ ToLowerCase(e.title) = ToLowerCase(f.title)
                 /\ e.source.type = f.source.type
                 /\ e.source.path = f.source.path

\* the files whose entry findDuplicate() can return (the first in directory order)
findDuplicate(recs, bad, e) ==
  {id \in getAllEntries(recs, bad) : SameKey(recs[id], e)}

MissingIndex == [state |-> "missing", entries |-> <<>>, totalEntries |-> 0,
                 lastUpdated |-> 0]
CorruptIndex == [state |-> "corrupt", entries |-> <<>>, totalEntries |-> 0,
                 lastUpdated |-> 0]

EmptyIndex(t) == [state |-> "ok", entries |-> <<>>, totalEntries |-> 0,
                  lastUpdated |-> t]

\* getIndex(): the parsed index file, or an empty index when readJSON gives null
getIndex(ix, t) == IF ix.state = "ok" THEN ix ELSE EmptyIndex(t)

\* addEntry: index.entries.push(toIndexEntry(entry)); totalEntries = length
IndexPush(ix, e, t) ==
  LET es == Append(ix.entries, toIndexEntry(e))
  IN [state |-> "ok", entries |-> es, totalEntries |-> Len(es), lastUpdated |-> t]

\* findIndex: position of the first projection with this id, 0 when none
FindIndex(es, id) ==
  IF \E i \in DOMAIN es : es[i].id = id
  THEN CHOOSE i \in DOMAIN es : es[i].id = id /\ \A j \in 1..(i-1) : es[j].id # id
  ELSE 0

\* updateEntry: replace the projection found, if any; totalEntries untouched
IndexReplace(ix, e, t) ==
  LET i == FindIndex(ix.entries, e.id)
      es == IF i # 0 THEN [ix.entries EXCEPT ![i] = toIndexEntry(e)]
            ELSE ix.entries
  IN [state |-> "ok", entries |-> es, totalEntries |-> ix.totalEntries,
      lastUpdated |-> t]

\* deleteEntry: filter out the projections of this id; totalEntries = length
IndexRemove(ix, id, t) ==
  LET Keep(x) == x.id # id
      es == SelectSeq(ix.entries, Keep)
  IN [state |-> "ok", entries |-> es, totalEntries |-> Len(es), lastUpdated |-> t]

\* variant: totalEntries counts the files of the directory, readable or not
IndexOfCountingFiles(recs, order, t) ==
  [state |-> "ok", entries |-> [i \in DOMAIN order |-> toIndexEntry(recs[order[i]])],
   totalEntries |-> Cardinality(DOMAIN recs), lastUpdated |-> t]

\* rebuildIndex: all.map(toIndexEntry), for one directory order of the files
IndexOf(recs, order, t) ==
  [state |-> "ok", entries |-> [i \in DOMAIN order |-> toIndexEntry(recs[order[i]])],
   totalEntries |-> Len(order), lastUpdated |-> t]

\* the orders in which readdirSync may list a set of files
Orders(S) == {s \in [1..Cardinality(S) -> S] : \A i, j \in DOMAIN s : s[i] = s[j] => i = j}

\* variant: {...existing, id, ...updates}, where an id among the updates wins
MergeIdOverridden(existing, updates, id) ==
  LET Field(f) == IF f \in DOMAIN updates THEN updates[f] ELSE existing[f]
  IN [id |-> IF "id" \in DOMAIN updates THEN updates.id ELSE id,
      title |-> Field("title"), content |-> Field("content"),
      category |-> Field("category"), tags |-> Field("tags"),
      source |-> Field("source"), confidence |-> Field("confidence")]

\* updateEntry: {...existing, ...updates, id}
Merge(existing, updates, id) ==
  LET Field(f) == IF f \in DOMAIN updates THEN updates[f] ELSE existing[f]
  IN [id |-> id, title |-> Field("title"), content |-> Field("content"),
      category |-> Field("category"), tags |-> Field("tags"),
      source |-> Field("source"), confidence |-> Field("confidence")]

\* writeJSON of an entry file / unlinkSync of an entry file
WriteFile(recs, id, e) == [i \in DOMAIN recs \cup {id} |-> IF i = id THEN e ELSE recs[i]]
RemoveFile(recs, id) == [i \in DOMAIN recs \ {id} |-> recs[i]]

-----------------------------------------------------------------------------
(* The calls the model makes *)

TitleUpper == <<"A", "d">>
TitleLower == <<"a", "d">>
TitleOther == <<"D", "b">>

SrcFile == [type |-> "file", path |-> "src/auth.ts"]
SrcDoc == [type |-> "doc", path |-> "src/auth.ts"]

\* ids a caller may supply, and the ids randomUUID() may return
SuppliedIds == {"a"}
UUIDs == {"u1", "u2"}
Ids == SuppliedIds \cup UUIDs

\* confidence is kept in hundredths
E1 == [id |-> "", title |-> TitleUpper, content |-> "c1", category |-> "architecture",
       tags |-> <<"auth">>, source |-> SrcFile, confidence |-> 90]
E2 == [id |-> "", title |-> TitleLower, content |-> "c2", category |-> "codebase",
       tags |-> <<>>, source |-> SrcFile, confidence |-> 80]
E3 == [id |-> "a", title |-> TitleOther, content |-> "c1", category |-> "tool",
       tags |-> <<>>, source |-> SrcFile, confidence |-> 80]
E4 == [id |-> "a", title |-> TitleUpper, content |-> "c2", category |-> "people",
       tags |-> <<"auth">>, source |-> SrcDoc, confidence |-> 70]

AddInputs == {E1, E2, E3, E4}

\* partial entries given to updateEntry
UpdateInputs == { [id |-> "u1", content |-> "c3", confidence |-> 50] }

NoUpdates == [f \in {} |-> 0]

\* uuid is the value randomUUID() returns if the call comes to draw one
OpAdd(e, u) == [kind |-> "addEntry", entry |-> e, id |-> "", updates |-> NoUpdates,
                uuid |-> u]
OpUpdate(i, u) == [kind |-> "updateEntry", entry |-> NullEntry, id |-> i, updates |-> u,
                   uuid |-> ""]
OpDelete(i) == [kind |-> "deleteEntry", entry |-> NullEntry, id |-> i,
                updates |-> NoUpdates, uuid |-> ""]
OpRebuild == [kind |-> "rebuildIndex", entry |-> NullEntry, id |-> "",
              updates |-> NoUpdates, uuid |-> ""]
\* the unlocked reads
OpGet(i) == [kind |-> "getEntry", entry |-> NullEntry, id |-> i,
             updates |-> NoUpdates, uuid |-> ""]
OpGetIndex == [kind |-> "getIndex", entry |-> NullEntry, id |-> "",
               updates |-> NoUpdates, uuid |-> ""]
NoOp == [kind |-> "none", entry |-> NullEntry, id |-> "", updates |-> NoUpdates,
         uuid |-> ""]

AllOps == {OpAdd(e, "u1") : e \in AddInputs}
            \cup {OpUpdate(i, u) : i \in Ids, u \in UpdateInputs}
            \cup {OpDelete(i) : i \in Ids}
            \cup {OpRebuild}

\* what a call gives its caller: a value (id, flag) or a thrown error
NoResult == [kind |-> "none", status |-> "none", id |-> "", flag |-> FALSE]
Returned(k, i, b) == [kind |-> k, status |-> "ok", id |-> i, flag |-> b]
Thrown(k, err) == [kind |-> k, status |-> err, id |-> "", flag |-> FALSE]

\* first position of the protected section of each mutator
Body(o) == CASE o.kind = "addEntry" -> "add_dedup"
             [] o.kind = "updateEntry" -> "upd_get"
             [] o.kind = "deleteEntry" -> "del_exists"
             [] o.kind = "rebuildIndex" -> "reb_scan"

\* positions between a successful acquire() and the matching release()
HoldPcs == {"add_dedup", "add_write", "upd_get", "upd_write", "del_exists",
            "del_unlink", "reb_scan", "getIndex", "writeIndex", "release",
            "ent_flush", "idx_flush"}

\* randomUUID() never returns an id that is in use or that another call drew
FreshUUIDs(p) ==
  {u \in UUIDs : /\ u \notin DOMAIN records
                 /\ \A i \in DOMAIN index.entries : index.entries[i].id # u
                 /\ \A q \in Procs \ {p} : pc[q] = "idle" \/ op[q].uuid # u}

Snapshot == [records |-> records, unreadable |-> unreadable, index |-> index,
             sources |-> profile]
NoLast == [entry |-> NullEntry, id |-> "", flag |-> FALSE, before |-> 0]
\* the sources of a profile that initialize() has just saved
NoSources == <<>>

NoSnapshot == [records |-> [i \in {} |-> NullEntry], unreadable |-> {},
               index |-> MissingIndex, sources |-> NoSources]

NoCalc == [fn |-> "none"]

-----------------------------------------------------------------------------
(* The state after init() on an empty directory *)

\* an empty directory / no current session
NoFiles == <<>>
NoSession == [id |-> "none", messages |-> <<>>]

InitFiles(a) ==
  /\ now = 0
  /\ marker = NoMarker
  /\ records = [i \in {} |-> NullEntry]
  /\ unreadable = {}
  /\ index = EmptyIndex(0)
  /\ pc = [p \in Procs |-> "idle"]
  /\ op = [p \in Procs |-> NoOp]
  /\ start = [p \in Procs |-> 0]
  /\ wake = [p \in Procs |-> 0]
  /\ ent = [p \in Procs |-> NullEntry]
  /\ idx = [p \in Procs |-> MissingIndex]
  /\ stamp = [p \in Procs |-> 0]
  /\ result = [p \in Procs |-> NoResult]
  /\ wrote = [p \in Procs |-> FALSE]
  /\ snap = [p \in Procs |-> NoSnapshot]
  /\ audit = a
  /\ calls = 0
  /\ owns = [p \in Procs |-> FALSE]
  /\ last = NoLast
  /\ todo = [p \in Procs |-> <<>>]
  /\ profile = NoSources
  /\ skills = NoFiles
  /\ sessionFiles = NoFiles
  /\ current = NoSession
  /\ dest = [profile |-> "absent", feedback |-> "absent"]

\* no pure function is being called
InitWith(a) ==
  /\ InitFiles(a)
  /\ calc = NoCalc

Init == InitWith("off")

storeVars == <<records, unreadable, index>>
localVars == <<ent, idx, stamp>>

-----------------------------------------------------------------------------
(* The clock *)

\* the clock stops at MaxNow, unless a retry timer is still to fire
Tick ==
  /\ \/ now + Quantum <= MaxNow
     \/ \E p \in Procs : pc[p] = "sleep" /\ now < wake[p]
  /\ now' = now + Quantum
  /\ UNCHANGED <<extraVars, marker, storeVars, pc, op, start, wake, localVars, result, wrote, snap, audit, calls, owns, last>>

-----------------------------------------------------------------------------
(* FileLock.acquire() and FileLock.release() *)

\* a mutator is called: await this.lock.acquire(); const start = Date.now()
\* (no call starts so late that the clock stops at cap before it has timed out)
CallBefore(p, o, cap) ==
  /\ pc[p] = "idle"
  /\ o.uuid # "" => o.uuid \in FreshUUIDs(p)
  /\ o.kind = "addEntry" => Len(index.entries) < MaxIndexLen
  /\ now + TimeoutTicks * Quantum <= cap
  /\ op' = [op EXCEPT ![p] = o]
  /\ start' = [start EXCEPT ![p] = now]
  /\ pc' = [pc EXCEPT ![p] = "loop"]
  /\ snap' = [snap EXCEPT ![p] = IF audit # "off" THEN Snapshot ELSE NoSnapshot]
  /\ UNCHANGED <<extraVars, now, marker, storeVars, wake, localVars, result, wrote, audit, owns, last>>

Call(p, o) == CallBefore(p, o, MaxNow)

\* the caller has the result of the call
Return(p) ==
  /\ pc[p] = "done"
  /\ pc' = [pc EXCEPT ![p] = "idle"]
  /\ op' = [op EXCEPT ![p] = NoOp]
  /\ result' = [result EXCEPT ![p] = NoResult]
  /\ wrote' = [wrote EXCEPT ![p] = FALSE]
  /\ snap' = [snap EXCEPT ![p] = NoSnapshot]
  /\ owns' = [owns EXCEPT ![p] = FALSE]
  /\ last' = IF audit # "full" THEN last
             ELSE IF result[p].kind = "addEntry" /\ result[p].status = "ok"
             THEN [entry |-> op[p].entry, id |-> result[p].id, flag |-> result[p].flag,
                   before |-> Cardinality(getAllEntries(snap[p].records, snap[p].unreadable))]
             ELSE NoLast
  /\ UNCHANGED <<extraVars, now, marker, storeVars, start, wake, localVars, audit, calls>>

\* while (Date.now() - start < LOCK_TIMEOUT_MS): the loop goes on
AcquireLoop(p) ==
  /\ pc[p] = "loop"
  /\ now - start[p] < LOCK_TIMEOUT_MS
  /\ pc' = [pc EXCEPT ![p] = "check"]
  /\ UNCHANGED <<extraVars, now, marker, storeVars, op, start, wake, localVars, result, wrote, snap, audit, calls, owns, last>>

\* variant: acquire() is awaited inside the try block, so that the finally
\* block releases a lock the call never held
AcquireTimeoutReleasing(p) ==
  /\ pc[p] = "loop"
  /\ ~(now - start[p] < LOCK_TIMEOUT_MS)
  /\ pc' = [pc EXCEPT ![p] = "done"]
  /\ result' = [result EXCEPT ![p] = Thrown(op[p].kind, "LockTimeout")]
  /\ start' = [start EXCEPT ![p] = 0]
  /\ marker' = NoMarker
  /\ UNCHANGED <<extraVars, now, storeVars, op, wake, localVars, wrote, snap, audit, calls,
                 owns, last>>

\* the loop ends: throw new Error('Failed to acquire file lock: timeout');
\* acquire() is awaited before the try block, so nothing else runs
AcquireTimeout(p) ==
  /\ pc[p] = "loop"
  /\ ~(now - start[p] < LOCK_TIMEOUT_MS)
  /\ pc' = [pc EXCEPT ![p] = "done"]
  /\ result' = [result EXCEPT ![p] = Thrown(op[p].kind, "LockTimeout")]
  /\ start' = [start EXCEPT ![p] = 0]
  /\ UNCHANGED <<extraVars, now, marker, storeVars, op, wake, localVars, wrote, snap, audit, calls, owns, last>>

\* if (!existsSync(this.lockPath))
AcquireCheck(p) ==
  /\ pc[p] = "check"
  /\ pc' = [pc EXCEPT ![p] = IF marker.exists THEN "read" ELSE "create"]
  /\ UNCHANGED <<extraVars, now, marker, storeVars, op, start, wake, localVars, result, wrote, snap, audit, calls, owns, last>>

\* variant: the file is opened without the 'x' flag, so that an existing
\* marker is truncated and taken over
AcquireCreateOverwriting(p) ==
  /\ pc[p] = "create"
  /\ marker' = [exists |-> TRUE, creator |-> p, written |-> FALSE, time |-> now]
  /\ pc' = [pc EXCEPT ![p] = "write"]
  /\ owns' = [owns EXCEPT ![p] = ~marker.exists]
  /\ UNCHANGED <<extraVars, now, storeVars, op, start, wake, localVars, result, wrote, snap,
                 audit, calls, last>>

\* writeFileSync(lockPath, ..., { flag: 'wx' }) opens the file: the exclusive
\* create makes an empty file, or fails when the file exists (caught, then sleep)
AcquireCreate(p) ==
  /\ pc[p] = "create"
  /\ IF ~marker.exists
     THEN /\ marker' = [exists |-> TRUE, creator |-> p, written |-> FALSE, time |-> now]
          /\ pc' = [pc EXCEPT ![p] = "write"]
          /\ owns' = [owns EXCEPT ![p] = TRUE]
          /\ wake' = wake
     ELSE /\ marker' = marker
          /\ pc' = [pc EXCEPT ![p] = "sleep"]
          /\ owns' = owns
          /\ wake' = [wake EXCEPT ![p] = now + LOCK_RETRY_MS]
  /\ UNCHANGED <<extraVars, now, storeVars, op, start, localVars, result, wrote, snap, audit, calls, last>>

\* writeFileSync then writes {pid, time} into the file it opened (which may
\* have been unlinked meanwhile) and acquire() returns
AcquireWrite(p) ==
  /\ pc[p] = "write"
  /\ marker' = IF marker.exists /\ marker.creator = p
               THEN [marker EXCEPT !.written = TRUE] ELSE marker
  /\ pc' = [pc EXCEPT ![p] = Body(op[p])]
  /\ start' = [start EXCEPT ![p] = 0]
  /\ UNCHANGED <<extraVars, now, storeVars, op, wake, localVars, result, wrote, snap, audit, calls, owns, last>>

\* JSON.parse(readFileSync(lockPath)) and the staleness test; a missing or
\* empty file throws into the catch block
AcquireRead(p) ==
  /\ pc[p] = "read"
  /\ IF ~marker.exists \/ ~marker.written
     THEN /\ pc' = [pc EXCEPT ![p] = "unlinkCorrupt"]
          /\ wake' = wake
     ELSE IF IsStale(marker, now)
     THEN /\ pc' = [pc EXCEPT ![p] = "unlinkStale"]
          /\ wake' = wake
     ELSE /\ pc' = [pc EXCEPT ![p] = "sleep"]
          /\ wake' = [wake EXCEPT ![p] = now + LOCK_RETRY_MS]
  /\ UNCHANGED <<extraVars, now, marker, storeVars, op, start, localVars, result, wrote, snap, audit, calls, owns, last>>

\* unlinkSync(lockPath); continue  -- a missing file throws into the catch block
AcquireUnlinkStale(p) ==
  /\ pc[p] = "unlinkStale"
  /\ IF marker.exists
     THEN /\ marker' = NoMarker
          /\ pc' = [pc EXCEPT ![p] = "loop"]
     ELSE /\ marker' = marker
          /\ pc' = [pc EXCEPT ![p] = "unlinkCorrupt"]
  /\ UNCHANGED <<extraVars, now, storeVars, op, start, wake, localVars, result, wrote, snap, audit, calls, owns, last>>

\* catch: try { unlinkSync(lockPath); } catch {}  continue
AcquireUnlinkCorrupt(p) ==
  /\ pc[p] = "unlinkCorrupt"
  /\ marker' = NoMarker
  /\ pc' = [pc EXCEPT ![p] = "loop"]
  /\ UNCHANGED <<extraVars, now, storeVars, op, start, wake, localVars, result, wrote, snap, audit, calls, owns, last>>

\* await new Promise(resolve => setTimeout(resolve, LOCK_RETRY_MS))
AcquireSleep(p) ==
  /\ pc[p] = "sleep"
  /\ now >= wake[p]
  /\ pc' = [pc EXCEPT ![p] = "loop"]
  /\ wake' = [wake EXCEPT ![p] = 0]
  /\ UNCHANGED <<extraVars, now, marker, storeVars, op, start, localVars, result, wrote, snap, audit, calls, owns, last>>

\* variant: release() is called at the end of the try block, not in a finally
\* block, so that a thrown error skips it
ReleaseUnlessThrown(p) ==
  /\ pc[p] = "release"
  /\ marker' = IF result[p].status = "error" THEN marker ELSE NoMarker
  /\ pc' = [pc EXCEPT ![p] = "done"]
  /\ ent' = [ent EXCEPT ![p] = NullEntry]
  /\ idx' = [idx EXCEPT ![p] = MissingIndex]
  /\ stamp' = [stamp EXCEPT ![p] = 0]
  /\ UNCHANGED <<extraVars, now, storeVars, op, start, wake, result, wrote, snap, audit, calls,
                 owns, last>>

\* finally { this.lock.release(); }: if (existsSync(lockPath)) unlinkSync(lockPath)
Release(p) ==
  /\ pc[p] = "release"
  /\ marker' = NoMarker
  /\ pc' = [pc EXCEPT ![p] = "done"]
  /\ ent' = [ent EXCEPT ![p] = NullEntry]
  /\ idx' = [idx EXCEPT ![p] = MissingIndex]
  /\ stamp' = [stamp EXCEPT ![p] = 0]
  /\ UNCHANGED <<extraVars, now, storeVars, op, start, wake, result, wrote, snap, audit, calls, owns, last>>

-----------------------------------------------------------------------------
(* The protected sections of the KnowledgeStore mutators *)

\* variant: a duplicate overwrites the record it matches before returning its id
AddDedupOverwriting(p) ==
  /\ pc[p] = "add_dedup"
  /\ LET e == op[p].entry
         dups == findDuplicate(records, unreadable, e)
     IN IF dups # {}
        THEN /\ \E d \in dups :
                  /\ result' = [result EXCEPT ![p] = Returned("addEntry", records[d].id, TRUE)]
                  /\ records' = WriteFile(records, d, [e EXCEPT !.id = records[d].id])
             /\ pc' = [pc EXCEPT ![p] = "release"]
             /\ UNCHANGED <<ent, stamp>>
        ELSE /\ ent' = [ent EXCEPT ![p] = [e EXCEPT !.id = IF e.id = "" THEN op[p].uuid ELSE e.id]]
             /\ stamp' = [stamp EXCEPT ![p] = now]
             /\ pc' = [pc EXCEPT ![p] = "add_write"]
             /\ UNCHANGED <<result, records>>
  /\ UNCHANGED <<extraVars, now, marker, unreadable, index, op, start, wake, idx, wrote, snap,
                 audit, calls, owns, last>>

\* addEntry: findDuplicate(entry); a duplicate returns its id at once,
\* otherwise the entry gets its id and the timestamp now
AddDedup(p) ==
  /\ pc[p] = "add_dedup"
  /\ LET e == op[p].entry
         dups == findDuplicate(records, unreadable, e)
     IN IF dups # {}
        THEN /\ \E d \in dups : result' = [result EXCEPT ![p] = Returned("addEntry", records[d].id, TRUE)]
             /\ pc' = [pc EXCEPT ![p] = "release"]
             /\ UNCHANGED <<ent, stamp>>
        ELSE /\ ent' = [ent EXCEPT ![p] = [e EXCEPT !.id = IF e.id = "" THEN op[p].uuid ELSE e.id]]
             /\ stamp' = [stamp EXCEPT ![p] = now]
             /\ pc' = [pc EXCEPT ![p] = "add_write"]
             /\ UNCHANGED result
  /\ UNCHANGED <<extraVars, now, marker, storeVars, op, start, wake, idx, wrote, snap, audit, calls, owns, last>>

\* updateEntry: getEntry(id); null returns null, otherwise the merged entry
\* {...existing, ...updates, id, updatedAt: now}
UpdGet(p) ==
  /\ pc[p] = "upd_get"
  /\ IF ~Readable(records, unreadable, op[p].id)
     THEN /\ result' = [result EXCEPT ![p] = Returned("updateEntry", op[p].id, FALSE)]
          /\ pc' = [pc EXCEPT ![p] = "release"]
          /\ UNCHANGED <<ent, stamp>>
     ELSE /\ ent' = [ent EXCEPT ![p] = Merge(records[op[p].id], op[p].updates, op[p].id)]
          /\ stamp' = [stamp EXCEPT ![p] = now]
          /\ pc' = [pc EXCEPT ![p] = "upd_write"]
          /\ UNCHANGED result
  /\ UNCHANGED <<extraVars, now, marker, storeVars, op, start, wake, idx, wrote, snap, audit, calls, owns, last>>

\* writeJSON(this.entryPath(id), entry) of addEntry and updateEntry
WriteEntry(p) ==
  /\ pc[p] \in {"add_write", "upd_write"}
  /\ records' = WriteFile(records, ent[p].id, ent[p])
  /\ unreadable' = unreadable \ {ent[p].id}
  /\ wrote' = [wrote EXCEPT ![p] = TRUE]
  /\ pc' = [pc EXCEPT ![p] = "getIndex"]
  /\ UNCHANGED <<extraVars, now, marker, index, op, start, wake, localVars, result, snap, audit, calls, owns, last>>

\* variant: deleteEntry unlinks without asking whether the file exists
DelExistsUnchecked(p) ==
  /\ pc[p] = "del_exists"
  /\ pc' = [pc EXCEPT ![p] = "del_unlink"]
  /\ UNCHANGED <<extraVars, now, marker, storeVars, op, start, wake, localVars, result, wrote, snap, audit, calls, owns, last>>

\* deleteEntry: if (!existsSync(filepath)) return false
DelExists(p) ==
  /\ pc[p] = "del_exists"
  /\ IF op[p].id \notin DOMAIN records
     THEN /\ result' = [result EXCEPT ![p] = Returned("deleteEntry", op[p].id, FALSE)]
          /\ pc' = [pc EXCEPT ![p] = "release"]
     ELSE /\ pc' = [pc EXCEPT ![p] = "del_unlink"]
          /\ UNCHANGED result
  /\ UNCHANGED <<extraVars, now, marker, storeVars, op, start, wake, localVars, wrote, snap, audit, calls, owns, last>>

\* deleteEntry: unlinkSync(filepath), which throws when the file is gone
DelUnlink(p) ==
  /\ pc[p] = "del_unlink"
  /\ IF op[p].id \in DOMAIN records
     THEN /\ records' = RemoveFile(records, op[p].id)
          /\ unreadable' = unreadable \ {op[p].id}
          /\ wrote' = [wrote EXCEPT ![p] = TRUE]
          /\ pc' = [pc EXCEPT ![p] = "getIndex"]
          /\ UNCHANGED result
     ELSE /\ result' = [result EXCEPT ![p] = Thrown(op[p].kind, "error")]
          /\ pc' = [pc EXCEPT ![p] = "release"]
          /\ UNCHANGED <<records, unreadable, wrote>>
  /\ UNCHANGED <<extraVars, now, marker, index, op, start, wake, localVars, snap, audit, calls, owns, last>>

\* const index = this.getIndex() and the change each mutator makes to it
GetIndexStep(p) ==
  /\ pc[p] = "getIndex"
  /\ LET ix == getIndex(index, now)
     IN idx' = [idx EXCEPT ![p] =
                  CASE op[p].kind = "addEntry" -> IndexPush(ix, ent[p], stamp[p])
                    [] op[p].kind = "updateEntry" -> IndexReplace(ix, ent[p], stamp[p])
                    [] op[p].kind = "deleteEntry" -> IndexRemove(ix, op[p].id, now)]
  /\ pc' = [pc EXCEPT ![p] = "writeIndex"]
  /\ UNCHANGED <<extraVars, now, marker, storeVars, op, start, wake, ent, stamp, result, wrote, snap, audit, calls, owns, last>>

\* rebuildIndex: const all = this.getAllEntries(); index = {all.map(toIndexEntry), ...}
RebScan(p) ==
  /\ pc[p] = "reb_scan"
  /\ \E order \in Orders(getAllEntries(records, unreadable)) :
        idx' = [idx EXCEPT ![p] = IndexOf(records, order, now)]
  /\ pc' = [pc EXCEPT ![p] = "writeIndex"]
  /\ UNCHANGED <<extraVars, now, marker, storeVars, op, start, wake, ent, stamp, result, wrote, snap, audit, calls, owns, last>>

\* writeJSON(this.indexPath(), index) and the return statement
WriteIndex(p) ==
  /\ pc[p] = "writeIndex"
  /\ index' = idx[p]
  /\ wrote' = [wrote EXCEPT ![p] = TRUE]
  /\ result' = [result EXCEPT ![p] =
                  CASE op[p].kind = "addEntry" -> Returned("addEntry", ent[p].id, FALSE)
                    [] op[p].kind = "updateEntry" -> Returned("updateEntry", op[p].id, TRUE)
                    [] op[p].kind = "deleteEntry" -> Returned("deleteEntry", op[p].id, TRUE)
                    [] op[p].kind = "rebuildIndex" -> Returned("rebuildIndex", "", TRUE)]
  /\ pc' = [pc EXCEPT ![p] = "release"]
  /\ UNCHANGED <<extraVars, now, marker, records, unreadable, op, start, wake, localVars, snap, audit, calls, owns, last>>

\* a writeJSON inside the protected section throws (disk full, permissions):
\* the error leaves through the finally block
WriteThrows(p) ==
  /\ pc[p] \in {"add_write", "upd_write", "writeIndex"}
  /\ result' = [result EXCEPT ![p] = Thrown(op[p].kind, "error")]
  /\ pc' = [pc EXCEPT ![p] = "release"]
  /\ UNCHANGED <<extraVars, now, marker, storeVars, op, start, wake, localVars, wrote, snap, audit, calls, owns, last>>

\* one step of FileLock.acquire()
AcquireStep(p) ==
  \/ AcquireLoop(p) \/ AcquireTimeout(p) \/ AcquireCheck(p) \/ AcquireCreate(p)
  \/ AcquireWrite(p) \/ AcquireRead(p) \/ AcquireUnlinkStale(p)
  \/ AcquireUnlinkCorrupt(p) \/ AcquireSleep(p)

\* one step of a protected section, up to the release
BodyStep(p) ==
  \/ AddDedup(p) \/ UpdGet(p) \/ WriteEntry(p) \/ DelExists(p) \/ DelUnlink(p)
  \/ GetIndexStep(p) \/ RebScan(p) \/ WriteIndex(p) \/ WriteThrows(p) \/ Release(p)

-----------------------------------------------------------------------------
(* Processes sharing the data directory *)

\* the calls the concurrent processes make: they all work on the entry "a"
LockOps == {OpAdd(E3, ""), OpDelete("a"), OpRebuild}
             \cup {OpUpdate("a", u) : u \in UpdateInputs}

Next ==
  \/ Tick
  \/ \E p \in Procs : \E o \in LockOps : calls < MaxCalls /\ Call(p, o) /\ calls' = calls + 1
  \/ \E p \in Procs : AcquireStep(p)
  \/ \E p \in Procs : BodyStep(p)
  \/ \E p \in Procs : Return(p)

Spec == Init /\ [][Next]_vars

-----------------------------------------------------------------------------
(* One process calling the store, every call running to its return *)

SeqProc == "p1"

StoreNext ==
  \/ Tick
  \/ \E o \in AllOps : Call(SeqProc, o) /\ UNCHANGED calls
  \/ AcquireLoop(SeqProc) \/ AcquireTimeout(SeqProc) \/ AcquireCheck(SeqProc)
  \/ AcquireCreate(SeqProc) \/ AcquireWrite(SeqProc)
  \/ AddDedup(SeqProc) \/ UpdGet(SeqProc) \/ WriteEntry(SeqProc)
  \/ DelExists(SeqProc) \/ DelUnlink(SeqProc) \/ GetIndexStep(SeqProc)
  \/ RebScan(SeqProc) \/ WriteIndex(SeqProc) \/ Release(SeqProc)
  \/ Return(SeqProc)

\* the same start, with the history variables snap and last switched on
StoreInit == InitWith("full")

StoreSpec == StoreInit /\ [][StoreNext]_vars

-----------------------------------------------------------------------------
(* One process calling the store, with writes that fail and files that are  *)
(* damaged between calls                                                    *)

\* an entry file is left with content that JSON.parse rejects
CorruptEntryFile(id) ==
  /\ pc[SeqProc] = "idle"
  /\ id \in DOMAIN records /\ id \notin unreadable
  /\ unreadable' = unreadable \cup {id}
  /\ UNCHANGED <<extraVars, now, marker, records, index, pc, op, start, wake, localVars,
                 result, wrote, snap, audit, calls, owns, last>>

\* index.json is lost, or left with content that JSON.parse rejects
DamageIndex ==
  /\ pc[SeqProc] = "idle"
  /\ index.state = "ok"
  /\ \E ix \in {MissingIndex, CorruptIndex} : index' = ix
  /\ UNCHANGED <<extraVars, now, marker, records, unreadable, pc, op, start, wake, localVars,
                 result, wrote, snap, audit, calls, owns, last>>

\* the calls made here: two entries, one under a caller's id, one under a uuid
FaultOps == {OpAdd(E1, "u1"), OpAdd(E3, ""), OpDelete("a"), OpDelete("u1"), OpRebuild}
              \cup {OpUpdate(i, u) : i \in {"a", "u1"}, u \in UpdateInputs}

FaultNext ==
  \/ Tick
  \/ \E o \in FaultOps : Call(SeqProc, o) /\ UNCHANGED calls
  \/ AcquireLoop(SeqProc) \/ AcquireTimeout(SeqProc) \/ AcquireCheck(SeqProc)
  \/ AcquireCreate(SeqProc) \/ AcquireWrite(SeqProc)
  \/ AddDedup(SeqProc) \/ UpdGet(SeqProc) \/ WriteEntry(SeqProc)
  \/ DelExists(SeqProc) \/ DelUnlink(SeqProc) \/ GetIndexStep(SeqProc)
  \/ RebScan(SeqProc) \/ WriteIndex(SeqProc) \/ Release(SeqProc)
  \/ Return(SeqProc)
  \/ WriteThrows(SeqProc)
  \/ \E id \in Ids : CorruptEntryFile(id)
  \/ DamageIndex

FaultSpec == InitWith("snap") /\ [][FaultNext]_vars

-----------------------------------------------------------------------------
(* Two processes, each adding once an entry with the same dedup key *)

RaceOp(p) == IF p = "p1" THEN OpAdd(E1, "u1") ELSE OpAdd(E2, "u2")

RaceNext ==
  \/ Tick
  \/ \E p \in Procs : Call(p, RaceOp(p)) /\ UNCHANGED calls
  \/ \E p \in Procs : AcquireStep(p)
  \/ \E p \in Procs : AddDedup(p) \/ WriteEntry(p) \/ GetIndexStep(p)
                          \/ WriteIndex(p) \/ Release(p)

RaceSpec == Init /\ [][RaceNext]_vars

-----------------------------------------------------------------------------
(* The concurrent processes under the scheduling the runtime gives: the     *)
(* clock advances and a process inside acquire() keeps running, whatever    *)
(* the other processes do                                                   *)

\* the calls made here: one that writes and one that returns early or unlinks
LiveOps == {OpAdd(E3, ""), OpDelete("a")}

LiveNext ==
  \/ Tick
  \/ \E p \in Procs : \E o \in LiveOps : calls < MaxCalls /\ Call(p, o) /\ calls' = calls + 1
  \/ \E p \in Procs : AcquireStep(p)
  \/ \E p \in Procs : AddDedup(p) \/ WriteEntry(p) \/ DelExists(p) \/ DelUnlink(p)
                          \/ GetIndexStep(p) \/ WriteIndex(p) \/ Release(p)
  \/ \E p \in Procs : Return(p)

LiveSpec ==
  /\ Init /\ [][LiveNext]_vars
  /\ WF_vars(Tick)
  /\ \A p \in Procs : WF_vars(AcquireStep(p))

-----------------------------------------------------------------------------
(* writeJSON as the file system runs it, and the unlocked reads *)

\* writeFileSync(path, ...) of an entry file opens the file with O_TRUNC: the
\* file is there and empty, which JSON.parse rejects
WriteEntryOpen(p) ==
  /\ pc[p] \in {"add_write", "upd_write"}
  /\ records' = WriteFile(records, ent[p].id, ent[p])
  /\ unreadable' = unreadable \cup {ent[p].id}
  /\ pc' = [pc EXCEPT ![p] = "ent_flush"]
  /\ UNCHANGED <<extraVars, now, marker, index, op, start, wake, localVars, result, wrote, snap, audit, calls, owns, last>>

\* writeFileSync then writes the serialized entry into the open file
WriteEntryFlush(p) ==
  /\ pc[p] = "ent_flush"
  /\ unreadable' = unreadable \ {ent[p].id}
  /\ wrote' = [wrote EXCEPT ![p] = TRUE]
  /\ pc' = [pc EXCEPT ![p] = "getIndex"]
  /\ UNCHANGED <<extraVars, now, marker, records, index, op, start, wake, localVars, result, snap, audit, calls, owns, last>>

\* writeFileSync(indexPath, ...) opens index.json with O_TRUNC
WriteIndexOpen(p) ==
  /\ pc[p] = "writeIndex"
  /\ index' = CorruptIndex
  /\ pc' = [pc EXCEPT ![p] = "idx_flush"]
  /\ UNCHANGED <<extraVars, now, marker, records, unreadable, op, start, wake, localVars, result, wrote, snap, audit, calls, owns, last>>

\* writeFileSync then writes the serialized index, and the mutator returns
WriteIndexFlush(p) ==
  /\ pc[p] = "idx_flush"
  /\ index' = idx[p]
  /\ wrote' = [wrote EXCEPT ![p] = TRUE]
  /\ result' = [result EXCEPT ![p] =
                  CASE op[p].kind = "addEntry" -> Returned("addEntry", ent[p].id, FALSE)
                    [] op[p].kind = "updateEntry" -> Returned("updateEntry", op[p].id, TRUE)
                    [] op[p].kind = "deleteEntry" -> Returned("deleteEntry", op[p].id, TRUE)
                    [] op[p].kind = "rebuildIndex" -> Returned("rebuildIndex", "", TRUE)]
  /\ pc' = [pc EXCEPT ![p] = "release"]
  /\ UNCHANGED <<extraVars, now, marker, records, unreadable, op, start, wake, localVars, snap, audit, calls, owns, last>>

\* getEntry(id) and getIndex() are called: they take no lock
CallRead(p, o) ==
  /\ pc[p] = "idle"
  /\ op' = [op EXCEPT ![p] = o]
  /\ pc' = [pc EXCEPT ![p] = IF o.kind = "getEntry" THEN "get_read" ELSE "idx_read"]
  /\ snap' = [snap EXCEPT ![p] = IF audit # "off" THEN Snapshot ELSE NoSnapshot]
  /\ UNCHANGED <<extraVars, now, marker, storeVars, start, wake, localVars, result, wrote, audit, calls, owns, last>>

\* getEntry: return readJSON(this.entryPath(id)); the flag tells an entry from null
GetEntry(p) ==
  /\ pc[p] = "get_read"
  /\ result' = [result EXCEPT ![p] =
                  Returned("getEntry", op[p].id, Readable(records, unreadable, op[p].id))]
  /\ pc' = [pc EXCEPT ![p] = "done"]
  /\ UNCHANGED <<extraVars, now, marker, storeVars, op, start, wake, localVars, wrote, snap, audit, calls, owns, last>>

\* getIndex: readJSON(this.indexPath()); the flag tells the parsed file from
\* the empty index that stands in for null
ReadIndex(p) ==
  /\ pc[p] = "idx_read"
  /\ result' = [result EXCEPT ![p] = Returned("getIndex", "", index.state = "ok")]
  /\ pc' = [pc EXCEPT ![p] = "done"]
  /\ UNCHANGED <<extraVars, now, marker, storeVars, op, start, wake, localVars, wrote, snap, audit, calls, owns, last>>

-----------------------------------------------------------------------------
(* The CLI knowledge store (src/knowledge/store.ts): the same files, written *)
(* by functions that take no lock and look for no duplicate                  *)

OpCliAdd(e, u) == [kind |-> "cliAdd", entry |-> e, id |-> "", updates |-> NoUpdates,
                   uuid |-> u]
OpCliUpdate(i, u) == [kind |-> "cliUpdate", entry |-> NullEntry, id |-> i, updates |-> u,
                      uuid |-> ""]
OpCliDelete(i) == [kind |-> "cliDelete", entry |-> NullEntry, id |-> i,
                   updates |-> NoUpdates, uuid |-> ""]
OpCliRebuild == [kind |-> "cliRebuild", entry |-> NullEntry, id |-> "",
                 updates |-> NoUpdates, uuid |-> ""]

\* what the LLM collaborator does when chat() is called: it throws, it answers
\* text without a JSON array that parses, or it answers a JSON array
Answers == {"throws", "garbage", "array"}

\* extractKnowledge(path): id holds the resolved path, llm what the collaborator
\* will do
OpExtract(path, a) == [kind |-> "extract", entry |-> NullEntry, id |-> path,
                       updates |-> NoUpdates, uuid |-> "", llm |-> a]

\* first position of each CLI store function
CliBody(o) == CASE o.kind = "cliAdd" -> "cli_add"
                [] o.kind = "cliUpdate" -> "cli_upd"
                [] o.kind = "cliDelete" -> "cli_del"
                [] o.kind = "cliRebuild" -> "cli_reb"

\* where a CLI store function returns to: the loop of extractKnowledge, or
\* the caller
AfterCli(p) == IF op[p].kind = "extract" THEN "x_loop" ELSE "done"

\* the entry given to addEntry: the caller's, or the next one extracted
CliArg(p) == IF op[p].kind = "extract" THEN Head(todo[p]) ELSE op[p].entry

\* a function of the CLI store is called
CallCli(p, o) ==
  /\ pc[p] = "idle"
  /\ o.uuid # "" => o.uuid \in FreshUUIDs(p)
  /\ o.kind = "cliAdd" => Len(index.entries) < MaxIndexLen
  /\ op' = [op EXCEPT ![p] = o]
  /\ pc' = [pc EXCEPT ![p] = CliBody(o)]
  /\ snap' = [snap EXCEPT ![p] = IF audit # "off" THEN Snapshot ELSE NoSnapshot]
  /\ UNCHANGED <<extraVars, now, marker, storeVars, start, wake, localVars, result, wrote, audit, owns, last>>

\* addEntry: if (!entry.id) entry.id = randomUUID(); const now = ...
CliAdd(p) ==
  /\ pc[p] = "cli_add"
  /\ LET e == CliArg(p)
     IN ent' = [ent EXCEPT ![p] = [e EXCEPT !.id = IF e.id = "" THEN op[p].uuid ELSE e.id]]
  /\ stamp' = [stamp EXCEPT ![p] = now]
  /\ todo' = [todo EXCEPT ![p] = IF op[p].kind = "extract" THEN Tail(todo[p]) ELSE todo[p]]
  /\ pc' = [pc EXCEPT ![p] = "cli_write"]
  /\ UNCHANGED <<sideVars, profile, calc, now, marker, storeVars, op, start, wake, idx, result, wrote,
                 snap, audit, calls, owns, last>>

\* updateEntry: getEntry(id); null returns null, otherwise the merged entry
\* {...existing, ...updates, id, updatedAt}
CliUpdGet(p) ==
  /\ pc[p] = "cli_upd"
  /\ IF ~Readable(records, unreadable, op[p].id)
     THEN /\ result' = [result EXCEPT ![p] = Returned("cliUpdate", op[p].id, FALSE)]
          /\ pc' = [pc EXCEPT ![p] = "done"]
          /\ UNCHANGED <<ent, stamp>>
     ELSE /\ ent' = [ent EXCEPT ![p] = Merge(records[op[p].id], op[p].updates, op[p].id)]
          /\ stamp' = [stamp EXCEPT ![p] = now]
          /\ pc' = [pc EXCEPT ![p] = "cli_write"]
          /\ UNCHANGED result
  /\ UNCHANGED <<extraVars, now, marker, storeVars, op, start, wake, idx, wrote, snap, audit, calls, owns, last>>

\* writeJSON(entryPath(entry.id), entry) of addEntry and updateEntry
CliWriteEntry(p) ==
  /\ pc[p] = "cli_write"
  /\ records' = WriteFile(records, ent[p].id, ent[p])
  /\ unreadable' = unreadable \ {ent[p].id}
  /\ wrote' = [wrote EXCEPT ![p] = TRUE]
  /\ pc' = [pc EXCEPT ![p] = "cli_getIndex"]
  /\ UNCHANGED <<extraVars, now, marker, index, op, start, wake, localVars, result, snap, audit, calls, owns, last>>

\* deleteEntry: if (!existsSync(filepath)) return false
CliDelExists(p) ==
  /\ pc[p] = "cli_del"
  /\ IF op[p].id \notin DOMAIN records
     THEN /\ result' = [result EXCEPT ![p] = Returned("cliDelete", op[p].id, FALSE)]
          /\ pc' = [pc EXCEPT ![p] = "done"]
     ELSE /\ pc' = [pc EXCEPT ![p] = "cli_unlink"]
          /\ UNCHANGED result
  /\ UNCHANGED <<extraVars, now, marker, storeVars, op, start, wake, localVars, wrote, snap, audit, calls, owns, last>>

\* deleteEntry: unlinkSync(filepath), which throws when the file is gone
CliDelUnlink(p) ==
  /\ pc[p] = "cli_unlink"
  /\ IF op[p].id \in DOMAIN records
     THEN /\ records' = RemoveFile(records, op[p].id)
          /\ unreadable' = unreadable \ {op[p].id}
          /\ wrote' = [wrote EXCEPT ![p] = TRUE]
          /\ pc' = [pc EXCEPT ![p] = "cli_getIndex"]
          /\ UNCHANGED result
     ELSE /\ result' = [result EXCEPT ![p] = Thrown(op[p].kind, "error")]
          /\ pc' = [pc EXCEPT ![p] = "done"]
          /\ UNCHANGED <<records, unreadable, wrote>>
  /\ UNCHANGED <<extraVars, now, marker, index, op, start, wake, localVars, snap, audit, calls, owns, last>>

\* const index = getIndex() and the change each function makes to it
CliGetIndex(p) ==
  /\ pc[p] = "cli_getIndex"
  /\ LET ix == getIndex(index, now)
     IN idx' = [idx EXCEPT ![p] =
                  CASE op[p].kind \in {"cliAdd", "extract"} -> IndexPush(ix, ent[p], stamp[p])
                    [] op[p].kind = "cliUpdate" -> IndexReplace(ix, ent[p], stamp[p])
                    [] op[p].kind = "cliDelete" -> IndexRemove(ix, op[p].id, now)]
  /\ pc' = [pc EXCEPT ![p] = "cli_writeIndex"]
  /\ UNCHANGED <<extraVars, now, marker, storeVars, op, start, wake, ent, stamp, result, wrote, snap, audit, calls, owns, last>>

\* rebuildIndex: const all = getAllEntries(); index = {all.map(toIndexEntry), ...}
CliRebScan(p) ==
  /\ pc[p] = "cli_reb"
  /\ \E order \in Orders(getAllEntries(records, unreadable)) :
        idx' = [idx EXCEPT ![p] = IndexOf(records, order, now)]
  /\ pc' = [pc EXCEPT ![p] = "cli_writeIndex"]
  /\ UNCHANGED <<extraVars, now, marker, storeVars, op, start, wake, ent, stamp, result, wrote, snap, audit, calls, owns, last>>

\* writeJSON(indexPath(), index) and the return statement
CliWriteIndex(p) ==
  /\ pc[p] = "cli_writeIndex"
  /\ index' = idx[p]
  /\ wrote' = [wrote EXCEPT ![p] = TRUE]
  /\ result' = [result EXCEPT ![p] =
                  CASE op[p].kind = "cliAdd" -> Returned("cliAdd", ent[p].id, FALSE)
                    [] op[p].kind = "cliUpdate" -> Returned("cliUpdate", op[p].id, TRUE)
                    [] op[p].kind = "cliDelete" -> Returned("cliDelete", op[p].id, TRUE)
                    [] op[p].kind = "cliRebuild" -> Returned("cliRebuild", "", TRUE)
                    [] op[p].kind = "extract" -> result[p]]
  /\ ent' = [ent EXCEPT ![p] = NullEntry]
  /\ idx' = [idx EXCEPT ![p] = MissingIndex]
  /\ stamp' = [stamp EXCEPT ![p] = 0]
  /\ pc' = [pc EXCEPT ![p] = AfterCli(p)]
  /\ UNCHANGED <<extraVars, now, marker, records, unreadable, op, start, wake, snap, audit, calls, owns, last>>

\* one step of a function of the CLI store
CliStep(p) ==
  \/ CliAdd(p) \/ CliUpdGet(p) \/ CliWriteEntry(p) \/ CliDelExists(p) \/ CliDelUnlink(p)
  \/ CliGetIndex(p) \/ CliRebScan(p) \/ CliWriteIndex(p)

-----------------------------------------------------------------------------
(* extractKnowledge of the orchestrator, with the LLM collaborator as a      *)
(* source of answers                                                         *)

ExtractPaths == {"src", "docs"}

\* the array the LLM answers for each path, when it answers with one
Extracted(path) ==
  IF path = "src"
  THEN << [title |-> TitleUpper, content |-> "c1", category |-> "architecture",
           tags |-> <<"auth">>, confidence |-> 120],
          [title |-> TitleOther, content |-> "c2", category |-> "tool",
           tags |-> <<>>, confidence |-> 80] >>
  ELSE << [title |-> TitleLower, content |-> "c1", category |-> "process",
           tags |-> <<>>, confidence |-> 90] >>

\* the ids randomUUID() gives to extracted entries, in the order it is asked
ExtractIds == <<"x1", "x2", "x3">>

UnusedId(i) == /\ i \notin DOMAIN records
               /\ \A k \in DOMAIN index.entries : index.entries[k].id # i

FreshExtractIds == SelectSeq(ExtractIds, UnusedId)

\* Math.max(0, Math.min(1, confidence)), in hundredths
Clamp(c) == IF c > 100 THEN 100 ELSE IF c < 0 THEN 0 ELSE c

\* makeEntry(extracted, {type: 'file', path})
makeEntry(x, path, id) ==
  [id |-> id, title |-> x.title, content |-> x.content, category |-> x.category,
   tags |-> x.tags, source |-> [type |-> "file", path |-> path],
   confidence |-> Clamp(x.confidence)]

\* extractKnowledge(path) is called
CallExtract(p, path, a) ==
  /\ pc[p] = "idle"
  /\ Len(index.entries) + Len(Extracted(path)) <= MaxIndexLen
  /\ Len(FreshExtractIds) >= Len(Extracted(path))
  /\ op' = [op EXCEPT ![p] = OpExtract(path, a)]
  /\ pc' = [pc EXCEPT ![p] = "x_llm"]
  /\ snap' = [snap EXCEPT ![p] = IF audit # "off" THEN Snapshot ELSE NoSnapshot]
  /\ UNCHANGED <<extraVars, now, marker, storeVars, start, wake, localVars, result, wrote, audit, calls, owns, last>>

\* extractor.execute(): chat() throws, and execute() gives {success: false}
\* so that extractKnowledge throws; or the answer holds no JSON array that
\* parses, and callClaude gives []; or the answer is an array, and makeEntry
\* makes an entry of each of its items
ExtractAnswer(p) ==
  /\ pc[p] = "x_llm"
  /\ CASE op[p].llm = "throws" ->
             /\ result' = [result EXCEPT ![p] = Thrown("extract", "ExtractionFailed")]
             /\ pc' = [pc EXCEPT ![p] = "done"]
             /\ todo' = todo
       [] op[p].llm = "garbage" ->
             /\ todo' = [todo EXCEPT ![p] = <<>>]
             /\ result' = [result EXCEPT ![p] = Returned("extract", op[p].id, FALSE)]
             /\ pc' = [pc EXCEPT ![p] = "x_loop"]
       [] op[p].llm = "array" ->
             LET xs == Extracted(op[p].id)
             IN /\ todo' = [todo EXCEPT ![p] =
                              [i \in DOMAIN xs |-> makeEntry(xs[i], op[p].id, FreshExtractIds[i])]]
                /\ result' = [result EXCEPT ![p] = Returned("extract", op[p].id, TRUE)]
                /\ pc' = [pc EXCEPT ![p] = "x_loop"]
  /\ UNCHANGED <<sideVars, profile, calc, now, marker, storeVars, op, start, wake, localVars, wrote,
                 snap, audit, calls, owns, last>>

\* for (const entry of entries) addEntry(entry)
ExtractLoop(p) ==
  /\ pc[p] = "x_loop"
  /\ pc' = [pc EXCEPT ![p] = IF todo[p] # <<>> THEN "cli_add" ELSE "x_profile"]
  /\ UNCHANGED <<extraVars, now, marker, storeVars, op, start, wake, localVars, result, wrote, snap, audit, calls, owns, last>>

\* if (profile && !profile.sources.includes(resolvedPath)) { push; saveProfile }
\* return { entries, summary }
ExtractProfile(p) ==
  /\ pc[p] = "x_profile"
  /\ profile' = IF \E i \in DOMAIN profile : profile[i] = op[p].id
                THEN profile ELSE Append(profile, op[p].id)
  /\ pc' = [pc EXCEPT ![p] = "done"]
  /\ UNCHANGED <<sideVars, todo, calc, now, marker, storeVars, op, start, wake, localVars, result,
                 wrote, snap, audit, calls, owns, last>>

ExtractStep(p) == ExtractAnswer(p) \/ ExtractLoop(p) \/ ExtractProfile(p)

-----------------------------------------------------------------------------
(* One process using both front ends on one data directory, every call      *)
(* running to its return; the lock is free whenever a mutator asks for it   *)

SeqMcpOps == {OpAdd(E1, "u1"), OpAdd(E3, ""), OpAdd(E4, ""), OpDelete("a"), OpDelete("u1")}
               \cup {OpUpdate(i, u) : i \in {"a", "u1"}, u \in UpdateInputs}
SeqReadOps == {OpGet("a"), OpGet("u1"), OpGetIndex}
SeqCliOps == {OpCliDelete("x1"), OpCliRebuild}
               \cup {OpCliUpdate(i, u) : i \in {"a", "x1"}, u \in UpdateInputs}

SeqNext ==
  \/ \E o \in SeqMcpOps : Call(SeqProc, o) /\ UNCHANGED calls
  \/ \E o \in SeqReadOps : CallRead(SeqProc, o)
  \/ \E o \in SeqCliOps : CallCli(SeqProc, o) /\ UNCHANGED calls
  \/ \E path \in ExtractPaths : \E a \in Answers : CallExtract(SeqProc, path, a)
  \/ AcquireLoop(SeqProc) \/ AcquireCheck(SeqProc) \/ AcquireCreate(SeqProc)
  \/ AcquireWrite(SeqProc)
  \/ AddDedup(SeqProc) \/ UpdGet(SeqProc) \/ WriteEntry(SeqProc)
  \/ DelExists(SeqProc) \/ DelUnlink(SeqProc) \/ GetIndexStep(SeqProc)
  \/ WriteIndex(SeqProc) \/ Release(SeqProc)
  \/ GetEntry(SeqProc) \/ ReadIndex(SeqProc)
  \/ CliStep(SeqProc)
  \/ ExtractStep(SeqProc)
  \/ Return(SeqProc)

SeqSpec == InitWith("snap") /\ [][SeqNext]_vars

-----------------------------------------------------------------------------
(* One process adding, updating and deleting entries of different ids, with  *)
(* updates that change the title or the source                               *)

KeyUpdates == { [title |-> TitleLower], [source |-> SrcDoc] }

KeyOps == {OpAdd(E1, "u1"), OpAdd(E3, ""), OpDelete("a"), OpDelete("u1")}
            \cup {OpUpdate(i, u) : i \in {"a", "u1"}, u \in KeyUpdates}

KeyNext ==
  \/ \E o \in KeyOps : Call(SeqProc, o) /\ UNCHANGED calls
  \/ AcquireLoop(SeqProc) \/ AcquireCheck(SeqProc) \/ AcquireCreate(SeqProc)
  \/ AcquireWrite(SeqProc)
  \/ AddDedup(SeqProc) \/ UpdGet(SeqProc) \/ WriteEntry(SeqProc)
  \/ DelExists(SeqProc) \/ DelUnlink(SeqProc) \/ GetIndexStep(SeqProc)
  \/ WriteIndex(SeqProc) \/ Release(SeqProc)
  \/ Return(SeqProc)

KeySpec == Init /\ [][KeyNext]_vars

-----------------------------------------------------------------------------
(* handover_migrate: the import of a data directory of the CLI layout, run   *)
(* by the only process that uses the destination                             *)

\* an entry file of the old directory: readJSON gives its entry, or null
OldFile(e, ok) == [entry |-> e, readable |-> ok]

OldA == [E1 EXCEPT !.id = "a"]
OldU == [E3 EXCEPT !.id = "u1"]

\* old directories: the entry files in the order listJSONFiles gives them,
\* profile.json (absent, parseable or not) and feedback/history.jsonl
OldDirs ==
  { [entries |-> es, profile |-> pf, feedback |-> fb] :
      es \in { <<OldFile(OldA, TRUE), OldFile(OldU, TRUE)>>,
               <<OldFile(OldA, TRUE), OldFile(OldU, FALSE)>>,
               <<OldFile(OldU, TRUE)>> },
      pf \in {"old", "unparseable"},
      fb \in {"absent", "old"} }

\* handover_migrate is called MaxRuns times in all
MaxRuns == 2

EmptyReport == [entriesMigrated |-> 0, entriesSkipped |-> 0,
                profileMigrated |-> FALSE, feedbackMigrated |-> FALSE]

\* store.addEntry(entry), from acquire() to release(): the store it leaves and
\* the flag it returns
addEntry(st, e, t) ==
  IF findDuplicate(st.records, st.unreadable, e) # {}
  THEN [store |-> st, deduplicated |-> TRUE]
  ELSE [store |-> [records |-> WriteFile(st.records, e.id, e),
                   unreadable |-> st.unreadable \ {e.id},
                   index |-> IndexPush(getIndex(st.index, t), e, t)],
        deduplicated |-> FALSE]

\* for (const file of files) { entry = readJSON(file); if (entry) addEntry(entry) }
RECURSIVE migrateEntries(_, _, _, _)
migrateEntries(files, st, report, t) ==
  IF files = <<>> THEN [store |-> st, report |-> report]
  ELSE LET f == Head(files)
           r == addEntry(st, f.entry, t)
       IN IF ~f.readable THEN migrateEntries(Tail(files), st, report, t)
          ELSE IF r.deduplicated
          THEN migrateEntries(Tail(files), r.store,
                              [report EXCEPT !.entriesSkipped = @ + 1], t)
          ELSE migrateEntries(Tail(files), r.store,
                              [report EXCEPT !.entriesMigrated = @ + 1], t)

\* if (profile && !existsSync(newProfilePath)) copyFileSync(old, new)
copyProfile(old, new) == IF old = "old" /\ new = "absent" THEN "old" ELSE new

\* if (existsSync(oldFeedbackPath)) if (!existsSync(newFeedbackPath)) copyFileSync
copyFeedback(old, new) == IF old = "old" /\ new = "absent" THEN "old" ELSE new

\* handover_create_profile: writeJSON(profilePath, profile)
CreateProfile ==
  /\ pc[SeqProc] = "idle"
  /\ dest' = [dest EXCEPT !.profile = "mine"]
  /\ UNCHANGED <<todo, profile, calc, skills, sessionFiles, current, now, marker, storeVars,
                 pc, op, start, wake, localVars, result, wrote, snap, audit, calls, owns, last>>

\* handover_log_feedback: appendLine(feedbackPath, ...)
LogFeedback ==
  /\ pc[SeqProc] = "idle"
  /\ dest' = [dest EXCEPT !.feedback = CASE @ = "absent" -> "mine"
                                          [] @ = "old" -> "old+mine"
                                          [] OTHER -> @]
  /\ UNCHANGED <<todo, profile, calc, skills, sessionFiles, current, now, marker, storeVars,
                 pc, op, start, wake, localVars, result, wrote, snap, audit, calls, owns, last>>

\* handover_migrate({oldDataDir}); calc keeps the call: the destination before
\* and after it, its report, and the call of handover_migrate before it
Migrate(old) ==
  /\ pc[SeqProc] = "idle"
  /\ calls < MaxRuns
  /\ calls' = calls + 1
  /\ LET st == [records |-> records, unreadable |-> unreadable, index |-> index]
         r == migrateEntries(old.entries, st, EmptyReport, now)
         pf == copyProfile(old.profile, dest.profile)
         fb == copyFeedback(old.feedback, dest.feedback)
         rep == [r.report EXCEPT !.profileMigrated = pf # dest.profile,
                                 !.feedbackMigrated = fb # dest.feedback]
         before == [store |-> st, dest |-> dest]
     IN \E order \in Orders(getAllEntries(r.store.records, r.store.unreadable)) :
          /\ records' = r.store.records
          /\ unreadable' = r.store.unreadable
          /\ index' = IF rep.entriesMigrated > 0
                      THEN IndexOf(r.store.records, order, now) ELSE r.store.index
          /\ dest' = [profile |-> pf, feedback |-> fb]
          /\ calc' = [fn |-> "migrate", old |-> old, report |-> rep, pre |-> before,
                      post |-> [store |-> [records |-> records', unreadable |-> unreadable',
                                           index |-> index'],
                                dest |-> dest'],
                      prev |-> IF calc.fn = "migrate"
                               THEN [ran |-> TRUE, old |-> calc.old, post |-> calc.post]
                               ELSE [ran |-> FALSE, old |-> old, post |-> before]]
  /\ UNCHANGED <<todo, profile, skills, sessionFiles, current, now, marker,
                 pc, op, start, wake, localVars, result, wrote, snap, audit, owns, last>>

\* the calls that fill the destination before and between the imports
MigrateOps == {OpAdd(E1, "u1"), OpDelete("u1")}

MigrateNext ==
  \/ \E o \in MigrateOps : Call(SeqProc, o) /\ UNCHANGED calls
  \/ AcquireLoop(SeqProc) \/ AcquireCheck(SeqProc) \/ AcquireCreate(SeqProc)
  \/ AcquireWrite(SeqProc)
  \/ AddDedup(SeqProc) \/ WriteEntry(SeqProc) \/ DelExists(SeqProc) \/ DelUnlink(SeqProc)
  \/ GetIndexStep(SeqProc) \/ WriteIndex(SeqProc) \/ Release(SeqProc)
  \/ Return(SeqProc)
  \/ CreateProfile
  \/ LogFeedback
  \/ \E old \in OldDirs : Migrate(old)

MigrateSpec == Init /\ [][MigrateNext]_vars

-----------------------------------------------------------------------------
(* Two CLI processes on one data directory *)

CliRaceOps == {OpCliAdd(E1, u) : u \in UUIDs}
                \cup {OpCliAdd(E3, ""), OpCliDelete("a"), OpCliRebuild}
                \cup {OpCliUpdate("a", u) : u \in UpdateInputs}

CliRaceNext ==
  \/ \E p \in Procs : \E o \in CliRaceOps : calls < MaxCalls /\ CallCli(p, o) /\ calls' = calls + 1
  \/ \E p \in Procs : CliStep(p)
  \/ \E p \in Procs : Return(p)

CliRaceSpec == Init /\ [][CliRaceNext]_vars

-----------------------------------------------------------------------------
(* A process reading, without the lock, the files another process is writing *)

Writer == "p1"
Reader == "p2"

\* the writer's calls, all on the entry "a", and the reader's
TornOps == {OpAdd(E3, ""), OpDelete("a"), OpRebuild} \cup {OpUpdate("a", u) : u \in UpdateInputs}
ReadOps == {OpGet("a"), OpGetIndex}

TornNext ==
  \/ \E o \in TornOps : Call(Writer, o) /\ UNCHANGED calls
  \/ AcquireLoop(Writer) \/ AcquireCheck(Writer) \/ AcquireCreate(Writer)
  \/ AcquireWrite(Writer)
  \/ AddDedup(Writer) \/ UpdGet(Writer) \/ DelExists(Writer) \/ DelUnlink(Writer)
  \/ GetIndexStep(Writer) \/ RebScan(Writer)
  \/ WriteEntryOpen(Writer) \/ WriteEntryFlush(Writer)
  \/ WriteIndexOpen(Writer) \/ WriteIndexFlush(Writer)
  \/ Release(Writer)
  \/ \E o \in ReadOps : CallRead(Reader, o)
  \/ GetEntry(Reader) \/ ReadIndex(Reader)
  \/ \E p \in Procs : Return(p)

TornSpec == InitWith("snap") /\ [][TornNext]_vars

-----------------------------------------------------------------------------
(* The relevance ranking: findRelevantEntries of the CLI (knowledge/indexer) *)
(* and of the MCP server (lib/knowledge-indexer).  Strings are sequences of  *)
(* characters; confidence is kept in hundredths, and so is the final score.  *)

\* String.prototype.includes
includes(str, sub) ==
  \E i \in 0..(Len(str) - Len(sub)) : SubSeq(str, i + 1, i + Len(sub)) = sub

IsSpace(c) == c = " "

\* String.prototype.split(/\s+/): the pieces between the runs of white space
RECURSIVE split(_)
split(str) ==
  IF \A i \in DOMAIN str : ~IsSpace(str[i])
  THEN <<str>>
  ELSE LET i == CHOOSE k \in DOMAIN str :
                   IsSpace(str[k]) /\ \A m \in 1..(k-1) : ~IsSpace(str[m])
           j == CHOOSE k \in i..Len(str) :
                   /\ \A m \in i..k : IsSpace(str[m])
                   /\ k = Len(str) \/ ~IsSpace(str[k+1])
       IN <<SubSeq(str, 1, i - 1)>> \o split(SubSeq(str, j + 1, Len(str)))

\* queryLower.split(/\s+/).filter((t) => t.length > 2)
queryTerms(queryLower) ==
  LET Long(t) == Len(t) > 2
  IN SelectSeq(split(queryLower), Long)

\* tagsLower.includes(term), with tagsLower = entry.tags.map(toLowerCase)
tagsInclude(tags, term) == \E i \in DOMAIN tags : ToLowerCase(tags[i]) = term

\* Array.prototype.slice(0, end)
slice(seq, end) ==
  IF end < 0
  THEN SubSeq(seq, 1, IF Len(seq) + end > 0 THEN Len(seq) + end ELSE 0)
  ELSE SubSeq(seq, 1, IF end < Len(seq) THEN end ELSE Len(seq))

\* Array.prototype.sort((a, b) => b.score - a.score) on positions of the
\* scored array: a stable sort, here by insertion after the elements that
\* compare greater or equal
RECURSIVE sortDescending(_, _)
sortDescending(ps, f) ==
  IF ps = <<>> THEN <<>>
  ELSE LET front == sortDescending(SubSeq(ps, 1, Len(ps) - 1), f)
           x == ps[Len(ps)]
           n == Cardinality({k \in DOMAIN front : f[front[k]] >= f[x]})
       IN SubSeq(front, 1, n) \o <<x>> \o SubSeq(front, n + 1, Len(front))

\* variant: .filter((s) => s.score >= 0)
filterNonNegative(scores) ==
  LET Keep(i) == scores[i] >= 0
  IN SelectSeq([i \in DOMAIN scores |-> i], Keep)

\* .filter((s) => s.score > 0), as positions of the scored array
filterPositive(scores) ==
  LET Keep(i) == scores[i] > 0
  IN SelectSeq([i \in DOMAIN scores |-> i], Keep)

\* the loop over queryTerms: +3 title, +1 content, +4 tag, +2 category
RECURSIVE termsScore(_, _)
termsScore(terms, entry) ==
  IF terms = <<>> THEN 0
  ELSE LET term == Head(terms)
       IN (IF includes(ToLowerCase(entry.title), term) THEN 3 ELSE 0)
          + (IF includes(ToLowerCase(entry.content), term) THEN 1 ELSE 0)
          + (IF tagsInclude(entry.tags, term) THEN 4 ELSE 0)
          + (IF includes(ToLowerCase(entry.category), term) THEN 2 ELSE 0)
          + termsScore(Tail(terms), entry)

\* the score of one entry before weighting
score(queryLower, terms, entry) ==
  (IF includes(ToLowerCase(entry.title), queryLower) THEN 10 ELSE 0)
  + (IF includes(ToLowerCase(entry.content), queryLower) THEN 5 ELSE 0)
  + termsScore(terms, entry)

\* variant: the score is not weighted by the confidence
finalScoreUnweighted(queryLower, terms, entry) ==
  score(queryLower, terms, entry) * 100

\* const finalScore = score * entry.confidence
finalScore(queryLower, terms, entry) ==
  score(queryLower, terms, entry) * entry.confidence

\* findRelevantEntries(query, entries, limit) of the CLI; the result is given
\* as the positions, in entries, of the entries returned
findRelevantEntries(query, entries, limit) ==
  LET queryLower == ToLowerCase(query)
      terms == queryTerms(queryLower)
      scored == [i \in DOMAIN entries |-> finalScore(queryLower, terms, entries[i])]
  IN IF Len(terms) = 0
     THEN slice([i \in DOMAIN entries |-> i], limit)
     ELSE slice(sortDescending(filterPositive(scored), scored), limit)

\* variant: an exact phrase in the title adds 5
mcpScoreHalfPhrase(queryLower, terms, entry) ==
  ( (IF includes(ToLowerCase(entry.title), queryLower) THEN 5 ELSE 0)
    + (IF includes(ToLowerCase(entry.content), queryLower) THEN 5 ELSE 0)
    + termsScore(terms, entry) ) * entry.confidence

\* the scoring of the MCP server's copy: score * entry.confidence
mcpScore(queryLower, terms, entry) ==
  LET phrase == (IF includes(ToLowerCase(entry.title), queryLower) THEN 10 ELSE 0)
                + (IF includes(ToLowerCase(entry.content), queryLower) THEN 5 ELSE 0)
      perTerm == [k \in DOMAIN terms |->
                    (IF includes(ToLowerCase(entry.title), terms[k]) THEN 3 ELSE 0)
                    + (IF includes(ToLowerCase(entry.content), terms[k]) THEN 1 ELSE 0)
                    + (IF tagsInclude(entry.tags, terms[k]) THEN 4 ELSE 0)
                    + (IF includes(ToLowerCase(entry.category), terms[k]) THEN 2 ELSE 0)]
      Sum[k \in 0..Len(terms)] == IF k = 0 THEN 0 ELSE Sum[k - 1] + perTerm[k]
  IN (phrase + Sum[Len(terms)]) * entry.confidence

\* findRelevantEntries(query, entries, limit) of the MCP server
mcpFindRelevantEntries(query, entries, limit) ==
  LET queryLower == ToLowerCase(query)
      terms == queryTerms(queryLower)
      scored == [i \in DOMAIN entries |-> mcpScore(queryLower, terms, entries[i])]
  IN IF Len(terms) = 0
     THEN slice([i \in DOMAIN entries |-> i], limit)
     ELSE slice(sortDescending(filterPositive(scored), scored), limit)

\* limit: number = 10
DefaultLimit == 10

\* entry lists have at most MaxEntries entries; explicit limits go up to MaxLimit
MaxEntries == 3
MaxLimit == 3

Limits == 0..MaxLimit \cup {DefaultLimit}

\* the queries: one term, two terms, a term after white space, no term of
\* more than 2 characters, white space only, the empty string
Queries == { <<"a","d","d">>,
             <<"A","d","d"," ","d","a","d">>,
             <<" ","t","o","o">>,
             <<"a","d">>,
             <<"a","d"," "," ","d","a">>,
             <<" ">>,
             <<>> }

RankEntry(t, c, tg, cat, conf) ==
  [title |-> t, content |-> c, tags |-> tg, category |-> cat, confidence |-> conf]

CatTool == <<"t","o","o","l">>
CatOther == <<"o","t","h","e","r">>

\* two entries alike but for the confidence (1.0 and 0.5), one that ties with
\* the second, one matched by content and tag, one that matches nothing, and
\* one of confidence 0
RankPool ==
  { RankEntry(<<"A","d","d">>, <<>>, <<>>, CatTool, 100),
    RankEntry(<<"A","d","d">>, <<>>, <<>>, CatTool, 50),
    RankEntry(<<"a","d","d">>, <<"x">>, <<<<"x">>>>, CatOther, 50),
    RankEntry(<<"d","a","d">>, <<"A","D","D">>, <<<<"A","d","d">>>>, CatOther, 90),
    RankEntry(<<"x","y">>, <<"a","d">>, <<>>, CatOther, 100),
    RankEntry(<<"a","d","d"," ","d","a","d">>, <<>>, <<>>, CatTool, 0) }

\* the lists of distinct entries of the pool, up to MaxEntries long
RankLists ==
  UNION { {l \in [1..n -> RankPool] : \A i, j \in 1..n : l[i] = l[j] => i = j}
          : n \in 0..MaxEntries }

\* a call of the ranking: its arguments; cli and mcp are the results of the
\* two copies, once they have run
RankCall(q, es, lim) ==
  [fn |-> "rank", query |-> q, entries |-> es, limit |-> lim,
   cliDone |-> FALSE, cli |-> <<>>, mcpDone |-> FALSE, mcp |-> <<>>]

RankInit ==
  /\ InitFiles("off")
  /\ \E q \in Queries : \E es \in RankLists : \E lim \in Limits :
        calc = RankCall(q, es, lim)

\* searchKnowledge / ask of the CLI: findRelevantEntries(query, allEntries, limit)
RankCli ==
  /\ calc.fn = "rank" /\ ~calc.cliDone
  /\ calc' = [calc EXCEPT !.cliDone = TRUE,
                          !.cli = findRelevantEntries(calc.query, calc.entries, calc.limit)]
  /\ UNCHANGED <<sideVars, todo, profile, now, marker, storeVars, pc, op, start, wake, localVars,
                 result, wrote, snap, audit, calls, owns, last>>

\* handover_search: findRelevantEntries(query, allEntries, limit)
RankMcp ==
  /\ calc.fn = "rank" /\ ~calc.mcpDone
  /\ calc' = [calc EXCEPT !.mcpDone = TRUE,
                          !.mcp = mcpFindRelevantEntries(calc.query, calc.entries, calc.limit)]
  /\ UNCHANGED <<sideVars, todo, profile, now, marker, storeVars, pc, op, start, wake, localVars,
                 result, wrote, snap, audit, calls, owns, last>>

RankNext == RankCli \/ RankMcp

RankSpec == RankInit /\ [][RankNext]_vars

(* Category coverage of the gap analyzer (buildKnowledgeMap) *)

MathMin(a, b) == IF a < b THEN a ELSE b

\* the coverage without the cap of 80 on the share of the entries
coverageBaseUncapped(entryCount, questions) ==
  LET base == IF entryCount > 0 THEN entryCount * 20 ELSE 0
      bonus == IF entryCount > 0 /\ questions > 0
               THEN MathMin(20, questions * 10) ELSE 0
  IN MathMin(100, base + bonus)

\* let coverage = 0; if (entryCount > 0) { coverage = Math.min(80, entryCount * 20);
\* if (questions > 0) coverage += Math.min(20, questions * 10); }
\* coverage = Math.min(100, coverage);
coverage(entryCount, questions) ==
  LET base == IF entryCount > 0 THEN MathMin(80, entryCount * 20) ELSE 0
      bonus == IF entryCount > 0 /\ questions > 0
               THEN MathMin(20, questions * 10) ELSE 0
  IN MathMin(100, base + bonus)

MaxEntryCount == 7
MaxQuestions == 7

\* one category of the knowledge map: its entries and the questions counted for it
CoverCall(n, q) ==
  [fn |-> "coverage", entryCount |-> n, questions |-> q, done |-> FALSE, coverage |-> 0]

CoverInit ==
  /\ InitFiles("off")
  /\ \E n \in 0..MaxEntryCount : \E q \in 0..MaxQuestions : calc = CoverCall(n, q)

\* the body of the loop over the categories: the map item pushed
BuildKnowledgeMap ==
  /\ calc.fn = "coverage" /\ ~calc.done
  /\ calc' = [calc EXCEPT !.done = TRUE,
                          !.coverage = coverage(calc.entryCount, calc.questions)]
  /\ UNCHANGED <<sideVars, todo, profile, now, marker, storeVars, pc, op, start, wake, localVars,
                 result, wrote, snap, audit, calls, owns, last>>

CoverNext == BuildKnowledgeMap

CoverSpec == CoverInit /\ [][CoverNext]_vars

(* The gap analyzer: knowledge map, overall coverage and the parsed analysis *)

ALL_CATEGORIES ==
  <<"architecture", "codebase", "process", "people", "decision", "tool",
    "convention", "domain", "other">>

HandoverTypes == {"project", "role", "team"}

REQUIRED_CATEGORIES(type) ==
  CASE type = "project" ->
         <<"architecture", "codebase", "tool", "convention", "process", "decision">>
    [] type = "role" -> <<"process", "people", "tool", "domain">>
    [] type = "team" -> <<"people", "process", "convention", "tool">>

NICE_TO_HAVE_CATEGORIES(type) ==
  CASE type = "project" -> <<"people", "domain">>
    [] type = "role" -> <<"decision", "convention">>
    [] type = "team" -> <<"architecture", "domain">>

Range(seq) == {seq[i] : i \in DOMAIN seq}

\* buildKnowledgeMap: an item for every required and nice-to-have category and
\* for every category that has an entry
buildKnowledgeMap(entryCounts, questionCounts, type) ==
  LET present == Range(REQUIRED_CATEGORIES(type)) \cup Range(NICE_TO_HAVE_CATEGORIES(type))
                   \cup {c \in Range(ALL_CATEGORIES) : entryCounts[c] > 0}
  IN [c \in present |->
        [entryCount |-> entryCounts[c], questionsAsked |-> questionCounts[c],
         coverage |-> coverage(entryCounts[c], questionCounts[c])]]

\* Math.round of num / den, for num >= 0 and den > 0
MathRound(num, den) == (2 * num + den) \div (2 * den)

\* the share counted over the required and the nice-to-have categories
overallOfRelevant(mapItems, type) ==
  LET relevant == REQUIRED_CATEGORIES(type) \o NICE_TO_HAVE_CATEGORIES(type)
      coveredCount == Cardinality({i \in DOMAIN relevant :
                         /\ relevant[i] \in DOMAIN mapItems
                         /\ mapItems[relevant[i]].entryCount > 0})
  IN MathRound(coveredCount * 100, Len(relevant))

calculateOverallCoverage(mapItems, type) ==
  LET required == REQUIRED_CATEGORIES(type)
      coveredCount == Cardinality({i \in DOMAIN required :
                         /\ required[i] \in DOMAIN mapItems
                         /\ mapItems[required[i]].entryCount > 0})
  IN IF Len(required) = 0 THEN 100
     ELSE MathRound(coveredCount * 100, Len(required))

\* buildTopicCoverage, by category: the coverage of the rows of a category
\* (0 for the row of a category without topics)
buildTopicCoverage(mapItems) ==
  [c \in DOMAIN mapItems |->
     IF mapItems[c].entryCount > 0 THEN mapItems[c].coverage ELSE 0]

\* values of the JSON an answer may hold
JsonMissing == [t |-> "missing", items |-> <<>>]
JsonString == [t |-> "string", items |-> <<>>]
JsonArray(items) == [t |-> "array", items |-> items]
JsonNull == [t |-> "null", topic |-> "undefined"]
JsonNumber == [t |-> "number", topic |-> "undefined"]
JsonGap == [t |-> "object", topic |-> "deploy"]

GapAnswer(k, g, r) == [kind |-> k, gaps |-> g, recommendations |-> r]

\* the texts the model may answer with: no brace-delimited span, a span that
\* does not parse, and objects with fields missing, not lists, or lists of
\* elements of the expected and of other shapes
GapAnswers ==
  { GapAnswer("nospan", JsonMissing, JsonMissing),
    GapAnswer("invalid", JsonMissing, JsonMissing),
    GapAnswer("json", JsonMissing, JsonMissing),
    GapAnswer("json", JsonString, JsonString),
    GapAnswer("json", JsonArray(<<>>), JsonArray(<<>>)),
    GapAnswer("json", JsonArray(<<JsonGap>>), JsonArray(<<JsonGap>>)),
    GapAnswer("json", JsonArray(<<JsonNumber>>), JsonArray(<<>>)),
    GapAnswer("json", JsonArray(<<JsonGap, JsonNull>>), JsonArray(<<>>)),
    GapAnswer("json", JsonString, JsonArray(<<JsonNumber>>)) }

\* analyzeGapsWithClaude, from the answer on (lines 322-337)
analyzeGapsWithClaude(answer) ==
  IF answer.kind # "json"
  THEN [gaps |-> <<>>, recommendations |-> <<>>]
  ELSE [gaps |-> IF answer.gaps.t = "array" THEN answer.gaps.items ELSE <<>>,
        recommendations |-> IF answer.recommendations.t = "array"
                            THEN answer.recommendations.items ELSE <<>>]

NoReport == [coveredTopics |-> <<>>, gaps |-> <<>>, overallCoverage |-> 0,
             recommendations |-> <<>>]

\* GapAnalyzerAgent.execute: reading g.topic of null throws, and the catch
\* makes it a failed result
execute(entryCounts, questionCounts, type, answer) ==
  LET knowledgeMap == buildKnowledgeMap(entryCounts, questionCounts, type)
      claudeAnalysis == analyzeGapsWithClaude(answer)
      throws == \E i \in DOMAIN claudeAnalysis.gaps : claudeAnalysis.gaps[i].t = "null"
  IN IF throws
     THEN [success |-> FALSE, report |-> NoReport]
     ELSE [success |-> TRUE,
           report |-> [coveredTopics |-> buildTopicCoverage(knowledgeMap),
                       gaps |-> [i \in DOMAIN claudeAnalysis.gaps |->
                                   [topic |-> claudeAnalysis.gaps[i].topic]],
                       overallCoverage |-> calculateOverallCoverage(knowledgeMap, type),
                       recommendations |-> claudeAnalysis.recommendations]]

MaxPerCategory == 1

GapInit ==
  /\ InitFiles("off")
  /\ \E type \in HandoverTypes :
     \E counts \in [Range(ALL_CATEGORIES) -> 0..MaxPerCategory] :
     \E q \in {0, MaxQuestions} :
        calc = [fn |-> "gap", type |-> type, entryCounts |-> counts,
                questionCounts |-> [c \in Range(ALL_CATEGORIES) |-> q],
                done |-> FALSE, answer |-> GapAnswer("nospan", JsonMissing, JsonMissing),
                out |-> [success |-> FALSE, report |-> NoReport]]

\* one run of the gap analysis, the model answering with one of the texts
GapExecute ==
  /\ calc.fn = "gap" /\ ~calc.done
  /\ \E answer \in GapAnswers :
        calc' = [calc EXCEPT !.done = TRUE, !.answer = answer,
                   !.out = execute(calc.entryCounts, calc.questionCounts, calc.type, answer)]
  /\ UNCHANGED <<sideVars, todo, profile, now, marker, storeVars, pc, op, start, wake, localVars,
                 result, wrote, snap, audit, calls, owns, last>>

GapSpec == GapInit /\ [][GapExecute]_vars

(* Feedback analysis: matching ratings to questions, and the weak areas *)

\* the stop words of tokenize that the questions drawn can hold
StopWords == { <<"t","h","e">>, <<"t","o","o">>, <<"h","a","d">> }

\* tokenize: lower case, every character but a-z, 0-9 and white space made a
\* space, split at white space, short words and stop words dropped
tokenize(text) ==
  LET lower == ToLowerCase(text)
      clean == [i \in DOMAIN lower |-> IF lower[i] = "?" THEN " " ELSE lower[i]]
      Keep(t) == Len(t) > 2 /\ t \notin StopWords
  IN SelectSeq(split(clean), Keep)

NoFeedback == [rating |-> "none", timestamp |-> 0, messageId |-> -1]

\* a record of the feedback history; messageId -1 stands for none
Feedback(r, ts, id) == [rating |-> r, timestamp |-> ts, messageId |-> id]

QAMessage(r, c, ts, f) == [role |-> r, content |-> c, timestamp |-> ts, feedback |-> f]

\* findPrecedingUserMessage, i a position (the index of the code plus 1)
findPrecedingUserMessage(messages, i) ==
  LET users == {j \in 1..(i - 1) : messages[j].role = "user"}
  IN IF users = {} THEN [found |-> FALSE, content |-> <<>>]
     ELSE [found |-> TRUE,
           content |-> messages[CHOOSE j \in users : \A k \in users : k <= j].content]

WINDOW_MS == 60000

\* variant: the ratings of all three sources together
feedbackOfAllSources(feedbackHistory, msg, i) ==
  LET ById(f) == f.messageId = i - 1
      Near(f) == (IF msg.timestamp > f.timestamp THEN msg.timestamp - f.timestamp
                  ELSE f.timestamp - msg.timestamp) < WINDOW_MS
  IN (IF msg.feedback.rating # "none" THEN <<msg.feedback>> ELSE <<>>)
       \o SelectSeq(feedbackHistory, ById) \o SelectSeq(feedbackHistory, Near)

\* the ratings matchFeedbackToQuestions takes for the assistant message at
\* position i: the embedded feedback, else the records of the history with
\* messageId `${i - 1}`, else those less than 60 s from the message
feedbackOf(feedbackHistory, msg, i) ==
  LET ById(f) == f.messageId = i - 1
      Near(f) == (IF msg.timestamp > f.timestamp THEN msg.timestamp - f.timestamp
                  ELSE f.timestamp - msg.timestamp) < WINDOW_MS
      matched == SelectSeq(feedbackHistory, ById)
  IN IF msg.feedback.rating # "none" THEN <<msg.feedback>>
     ELSE IF matched # <<>> THEN matched
     ELSE SelectSeq(feedbackHistory, Near)

\* questionFeedback.set(userMsg, [...existing, ...items]) on a Map kept as the
\* sequence of its entries in insertion order
MapPush(map, key, items) ==
  IF items = <<>> THEN map
  ELSE IF \E k \in DOMAIN map : map[k].key = key
  THEN [k \in DOMAIN map |->
          IF map[k].key = key THEN [key |-> key, value |-> map[k].value \o items]
          ELSE map[k]]
  ELSE Append(map, [key |-> key, value |-> items])

\* the loop over the messages of one session, from position i on
RECURSIVE matchMessages(_, _, _, _)
matchMessages(feedbackHistory, messages, i, questionFeedback) ==
  IF i > Len(messages) THEN questionFeedback
  ELSE LET msg == messages[i]
           userMsg == findPrecedingUserMessage(messages, i)
       IN matchMessages(feedbackHistory, messages, i + 1,
            IF msg.role # "assistant" \/ ~userMsg.found THEN questionFeedback
            ELSE MapPush(questionFeedback, userMsg.content,
                         feedbackOf(feedbackHistory, msg, i)))

RECURSIVE matchSessions(_, _, _, _)
matchSessions(feedbackHistory, sessions, k, questionFeedback) ==
  IF k > Len(sessions) THEN questionFeedback
  ELSE matchSessions(feedbackHistory, sessions, k + 1,
         matchMessages(feedbackHistory, sessions[k], 1, questionFeedback))

matchFeedbackToQuestions(feedbackHistory, sessions) ==
  matchSessions(feedbackHistory, sessions, 1, <<>>)

\* the loop over the top terms of one question: the ratings of the question
\* are added to the statistics of each term in turn
RECURSIVE addTerms(_, _, _)
addTerms(topicStats, topTerms, feedbacks) ==
  IF topTerms = <<>> THEN topicStats
  ELSE LET term == Head(topTerms)
           Negative(f) == f.rating = "negative"
           neg == Len(SelectSeq(feedbacks, Negative))
           next == IF \E k \in DOMAIN topicStats : topicStats[k].topic = term
                   THEN [k \in DOMAIN topicStats |->
                           IF topicStats[k].topic = term
                           THEN [topic |-> term,
                                 negative |-> topicStats[k].negative + neg,
                                 total |-> topicStats[k].total + Len(feedbacks)]
                           ELSE topicStats[k]]
                   ELSE Append(topicStats, [topic |-> term, negative |-> neg,
                                            total |-> Len(feedbacks)])
       IN addTerms(next, Tail(topTerms), feedbacks)

RECURSIVE buildTopicStats(_, _, _)
buildTopicStats(questionFeedback, k, topicStats) ==
  IF k > Len(questionFeedback) THEN topicStats
  ELSE buildTopicStats(questionFeedback, k + 1,
         addTerms(topicStats, slice(tokenize(questionFeedback[k].key), 3),
                  questionFeedback[k].value))

\* stats.total >= 2 && stats.negative / stats.total >= 0.4
isWeak(stats) == stats.total >= 2 /\ 5 * stats.negative >= 2 * stats.total

identifyWeakAreas(feedbackHistory, sessions) ==
  LET topicStats == buildTopicStats(matchFeedbackToQuestions(feedbackHistory, sessions),
                                    1, <<>>)
      weakAreas == SelectSeq(topicStats, isWeak)
      order == sortDescending([i \in DOMAIN weakAreas |-> i],
                              [i \in DOMAIN weakAreas |-> weakAreas[i].negative])
  IN [i \in DOMAIN order |->
        [topic |-> weakAreas[order[i]].topic,
         negativeCount |-> weakAreas[order[i]].negative,
         totalCount |-> weakAreas[order[i]].total]]

\* the questions of the sessions drawn
QuestionTwo == <<"a","d","d"," ","d","a","d">>
QuestionTwice == <<"a","d","d"," ","t","h","e"," ","a","d","d">>
QuestionOne == <<"T","h","e"," ","D","a","d","?">>

\* the sessions drawn: with embedded feedback, without, with two answers to
\* one question, and with an answer that no question precedes
SessionPool ==
  { << QAMessage("user", QuestionTwo, 0, NoFeedback),
       QAMessage("assistant", <<>>, 1000, Feedback("negative", 1000, 1)) >>,
    << QAMessage("user", QuestionOne, 0, NoFeedback),
       QAMessage("assistant", <<>>, 0, NoFeedback) >>,
    << QAMessage("user", QuestionTwice, 0, NoFeedback),
       QAMessage("assistant", <<>>, 120000, NoFeedback) >>,
    << QAMessage("assistant", <<>>, 0, NoFeedback),
       QAMessage("user", QuestionOne, 0, NoFeedback),
       QAMessage("user", QuestionTwo, 0, NoFeedback),
       QAMessage("assistant", <<>>, 119999, NoFeedback),
       QAMessage("assistant", <<>>, 300000, Feedback("positive", 300000, 4)) >> }

\* the records of the history drawn
FeedbackPool ==
  { Feedback("negative", 1000, 1), Feedback("positive", 59999, -1),
    Feedback("negative", 60000, -1), Feedback("negative", 60000, 3) }

MaxSessions == 2
MaxHistory == 2

FeedbackInit ==
  /\ InitFiles("off")
  /\ \E ns \in 0..MaxSessions : \E nh \in 0..MaxHistory :
     \E ss \in [1..ns -> SessionPool] : \E h \in [1..nh -> FeedbackPool] :
        calc = [fn |-> "feedback", sessions |-> ss, feedbackHistory |-> h,
                done |-> FALSE, questionFeedback |-> <<>>, weakAreas |-> <<>>]

\* the weak areas of the evolve step, computed from the history and the sessions
IdentifyWeakAreas ==
  /\ calc.fn = "feedback" /\ ~calc.done
  /\ calc' = [calc EXCEPT
                !.done = TRUE,
                !.questionFeedback =
                   matchFeedbackToQuestions(calc.feedbackHistory, calc.sessions),
                !.weakAreas = identifyWeakAreas(calc.feedbackHistory, calc.sessions)]
  /\ UNCHANGED <<sideVars, todo, profile, now, marker, storeVars, pc, op, start, wake, localVars,
                 result, wrote, snap, audit, calls, owns, last>>

FeedbackSpec == FeedbackInit /\ [][IdentifyWeakAreas]_vars

(* Skills: the registry, autoExecuteSkill and evolveSkills.  successRate is *)
(* kept as a fraction, updatedAt is the number of the call that wrote it.   *)

BuiltInIds == {"codebase-overview", "onboarding-checklist", "key-decisions", "team-contacts"}

\* the ids `gen-${randomUUID().slice(0, 8)}` of generated skills
GenIds == {"gen-1", "gen-2"}

Skill(id, prompt, usage, rate, source, t) ==
  [id |-> id, prompt |-> prompt,
   metadata |-> [usageCount |-> usage, successRate |-> rate, source |-> source,
                 updatedAt |-> t]]

One == [num |-> 1, den |-> 1]
Zero == [num |-> 0, den |-> 1]

\* getBuiltInSkills(): built anew at every call
getBuiltInSkills(t) == [b \in BuiltInIds |-> Skill(b, "built-in prompt", 0, One, "built-in", t)]

\* loadAllSkills(): the built-in skills, then the skill files; as pairs of
\* origin and skill
loadAllSkills(files, t) ==
  {<<"built-in", getBuiltInSkills(t)[b]>> : b \in BuiltInIds}
    \cup {<<"file", files[f]>> : f \in DOMAIN files}

\* getSkill(id): the built-in skill of this id, else the skill file, else null
getSkill(files, id, t) ==
  IF id \in BuiltInIds THEN [found |-> TRUE, skill |-> getBuiltInSkills(t)[id]]
  ELSE IF id \in DOMAIN files THEN [found |-> TRUE, skill |-> files[id]]
  ELSE [found |-> FALSE, skill |-> Skill(id, "", 0, Zero, "none", 0)]

\* {...existing, ...updates, id, metadata: {...existing.metadata,
\*  ...updates.metadata, updatedAt}}
mergeSkill(existing, updates, id, t) ==
  LET m == IF "metadata" \in DOMAIN updates THEN updates.metadata ELSE <<>>
      Meta(f) == IF f \in DOMAIN m THEN m[f] ELSE existing.metadata[f]
  IN [id |-> id,
      prompt |-> IF "prompt" \in DOMAIN updates THEN updates.prompt ELSE existing.prompt,
      metadata |-> [usageCount |-> Meta("usageCount"), successRate |-> Meta("successRate"),
                    source |-> Meta("source"), updatedAt |-> t]]

\* variant: the file is written even when none exists, from the skill getSkill gives
updateSkillUpsert(files, id, updates, t) ==
  IF id \in DOMAIN files THEN WriteFile(files, id, mergeSkill(files[id], updates, id, t))
  ELSE WriteFile(files, id, mergeSkill(getSkill(files, id, t).skill, updates, id, t))

\* updateSkill: nothing without the skill file
updateSkill(files, id, updates, t) ==
  IF id \in DOMAIN files THEN WriteFile(files, id, mergeSkill(files[id], updates, id, t))
  ELSE files

NoSkillUpdates == <<>>
SkillUpdates == {NoSkillUpdates, [prompt |-> "manual prompt"],
                 [metadata |-> [usageCount |-> 2]]}

SkillUnchanged ==
  UNCHANGED <<todo, profile, sessionFiles, current, dest, now, marker, storeVars, pc, op,
              start, wake, localVars, result, wrote, snap, audit, owns, last>>

\* updateSkill(id, updates) called on any id
UpdateSkill ==
  /\ calls < MaxCalls /\ calls' = calls + 1
  /\ \E id \in BuiltInIds \cup GenIds : \E u \in SkillUpdates :
        /\ skills' = updateSkill(skills, id, u, calls')
        /\ calc' = [fn |-> "updateSkill", id |-> id]
  /\ SkillUnchanged

\* deleteSkill(id): false for a built-in id and for a missing file
DeleteSkill ==
  /\ calls < MaxCalls /\ calls' = calls + 1
  /\ \E id \in BuiltInIds \cup GenIds :
        LET deleted == id \notin BuiltInIds /\ id \in DOMAIN skills
        IN /\ skills' = IF deleted THEN RemoveFile(skills, id) ELSE skills
           /\ calc' = [fn |-> "deleteSkill", id |-> id, returned |-> deleted]
  /\ SkillUnchanged

\* autoExecuteSkill: the best match is any of the skills loaded (the query
\* decides), the execution succeeds or fails, and the counters of a skill
\* that is not built-in are written back
AutoExecuteSkill ==
  /\ calls < MaxCalls /\ calls' = calls + 1
  /\ \E best \in loadAllSkills(skills, calls') : \E success \in BOOLEAN :
        LET bestMatch == best[2]
            existing == getSkill(skills, bestMatch.id, calls')
            usage == existing.skill.metadata.usageCount
            rate == existing.skill.metadata.successRate
            previousSuccesses == (rate.num * usage) \div rate.den
            newMeta == [usageCount |-> usage + 1,
                        successRate |-> [num |-> previousSuccesses + (IF success THEN 1 ELSE 0),
                                         den |-> usage + 1],
                        source |-> existing.skill.metadata.source,
                        updatedAt |-> calls']
        IN /\ skills' = IF bestMatch.metadata.source # "built-in" /\ existing.found
                        THEN updateSkill(skills, bestMatch.id, [metadata |-> newMeta], calls')
                        ELSE skills
           /\ calc' = [fn |-> "autoExecuteSkill", id |-> bestMatch.id]
  /\ SkillUnchanged

\* evolveSkills: the builder fails, or returns at most one new skill and the
\* existing skills it has an improved prompt for; the new skill is registered
\* and updateSkill(improvement.id, {}) is called for each improvement
EvolveSkills ==
  /\ calls < MaxCalls /\ calls' = calls + 1
  /\ \/ /\ calc' = [fn |-> "evolveSkills", success |-> FALSE, improved |-> {},
                    before |-> skills]
        /\ UNCHANGED skills
     \/ \E new \in SUBSET (GenIds \ DOMAIN skills) :
        \E improved \in SUBSET (BuiltInIds \cup DOMAIN skills) :
           /\ Cardinality(new) <= 1 /\ Cardinality(improved) <= 2
           /\ LET registered ==
                    [f \in DOMAIN skills \cup new |->
                       IF f \in new
                       THEN Skill(f, "generated prompt", 0, Zero, "generated", calls')
                       ELSE skills[f]]
              IN skills' = [f \in DOMAIN registered |->
                              IF f \in improved
                              THEN updateSkill(registered, f, NoSkillUpdates, calls')[f]
                              ELSE registered[f]]
           /\ calc' = [fn |-> "evolveSkills", success |-> TRUE, improved |-> improved,
                       before |-> skills]
  /\ SkillUnchanged

SkillNext == UpdateSkill \/ DeleteSkill \/ AutoExecuteSkill \/ EvolveSkills

SkillSpec == Init /\ [][SkillNext]_vars

(* Sessions of the agent: ask, getOrCreateSession and saveSession.  The time *)
(* of a message is the number of the call that recorded it.                  *)

\* the session ids a caller passes, and the ids randomUUID() gives
GivenSessionIds == {"s1", "s2"}
RandomSessionIds == {"r1", "r2"}
Questions == {"q1", "q2"}

\* variant: a session that is not the current one is always created anew
getOrCreateSessionNoLoad(cur, files, sessionId, uuid) ==
  IF sessionId # "none" /\ cur.id = sessionId THEN cur
  ELSE [id |-> IF sessionId # "none" THEN sessionId ELSE uuid, messages |-> <<>>]

\* getOrCreateSession: the current session if it has this id, else the
\* session file of this id, else a new session (of this id, or of a random id)
getOrCreateSession(cur, files, sessionId, uuid) ==
  IF sessionId # "none" /\ cur.id = sessionId THEN cur
  ELSE IF sessionId # "none" /\ sessionId \in DOMAIN files
  THEN [id |-> sessionId, messages |-> files[sessionId]]
  ELSE [id |-> IF sessionId # "none" THEN sessionId ELSE uuid, messages |-> <<>>]

SessionUnchanged ==
  UNCHANGED <<todo, profile, skills, dest, now, marker, storeVars, pc, op,
              start, wake, localVars, result, wrote, snap, audit, owns, last>>

\* ask, up to the call of the Q&A agent: currentSession is set
AskBegin ==
  /\ IF calc.fn = "ask" THEN calc.state # "pending" ELSE TRUE
  /\ calls < MaxCalls /\ calls' = calls + 1
  /\ \E sessionId \in GivenSessionIds \cup {"none"} : \E question \in Questions :
     \E uuid \in RandomSessionIds \ (DOMAIN sessionFiles \cup {current.id}) :
        /\ current' = getOrCreateSession(current, sessionFiles, sessionId, uuid)
        /\ calc' = [fn |-> "ask", state |-> "pending", question |-> question]
  /\ UNCHANGED sessionFiles
  /\ SessionUnchanged

\* the Q&A agent succeeded: both messages are pushed and the session is saved
AskReturn ==
  /\ calc.fn = "ask" /\ calc.state = "pending"
  /\ current' = [current EXCEPT !.messages =
                    current.messages \o
                      << [role |-> "user", content |-> calc.question, timestamp |-> calls],
                         [role |-> "assistant", content |-> "answer", timestamp |-> calls] >>]
  /\ sessionFiles' = WriteFile(sessionFiles, current.id, current'.messages)
  /\ calc' = [calc EXCEPT !.state = "returned"]
  /\ UNCHANGED calls
  /\ SessionUnchanged

\* the Q&A agent failed: ask throws before any message is recorded
AskThrow ==
  /\ calc.fn = "ask" /\ calc.state = "pending"
  /\ calc' = [calc EXCEPT !.state = "thrown"]
  /\ UNCHANGED <<sessionFiles, current, calls>>
  /\ SessionUnchanged

SessionNext == AskBegin \/ AskReturn \/ AskThrow

SessionSpec == Init /\ [][SessionNext]_vars

-----------------------------------------------------------------------------
(* A holder that dies with the lock file in place, and a caller that calls   *)
(* again as soon as a call has returned                                      *)

\* the clock of this specification stops at CrashMaxNow
CrashMaxNow == 15000

Holder == "p1"
Caller == "p2"

\* the process dies between the exclusive create of its marker and its
\* release(): nothing unlinks the file on its behalf. A death is looked at
\* only when a timed-out call and one more call fit before the clock stops.
Crash(p) ==
  /\ marker.exists /\ marker.creator = p
  /\ pc[p] \in HoldPcs \cup {"write"}
  /\ now + 2 * TimeoutTicks * Quantum <= CrashMaxNow
  /\ pc' = [pc EXCEPT ![p] = "dead"]
  /\ UNCHANGED <<extraVars, now, marker, storeVars, op, start, wake, localVars, result, wrote,
                 snap, audit, calls, owns, last>>

\* time passes while the caller awaits setTimeout(resolve, LOCK_RETRY_MS),
\* until the timer is due. One iteration of the loop of acquire() and the
\* caller's protected section run without a clock step in between.
CrashTick ==
  /\ pc[Caller] = "sleep" /\ now < wake[Caller]
  /\ now + Quantum <= CrashMaxNow
  /\ now' = now + Quantum
  /\ UNCHANGED <<extraVars, marker, storeVars, pc, op, start, wake, localVars, result, wrote,
                 snap, audit, calls, owns, last>>

\* the mutator both processes call, for its acquire() and release(): a
\* deleteEntry of an id that is not stored
CrashCall(p) == CallBefore(p, OpDelete("a"), CrashMaxNow) /\ UNCHANGED calls

CrashBody(p) == DelExists(p) \/ Release(p)

CrashNext ==
  \/ CrashTick
  \/ \E p \in Procs : CrashCall(p)
  \/ \E p \in Procs : AcquireStep(p)
  \/ \E p \in Procs : CrashBody(p)
  \/ \E p \in Procs : Return(p)
  \/ Crash(Holder)

\* the clock advances and the caller keeps running and keeps calling
CrashSpec ==
  /\ Init /\ [][CrashNext]_vars
  /\ WF_vars(CrashTick)
  /\ WF_vars(AcquireStep(Caller))
  /\ WF_vars(CrashBody(Caller))
  /\ WF_vars(Return(Caller))
  /\ WF_vars(CrashCall(Caller))

-----------------------------------------------------------------------------
(* Properties *)

Holding(p) == pc[p] \in HoldPcs

Elapsed(p) == now - start[p]

\* C1: at no time are two processes both between a successful acquire() and
\* the matching release() of a mutator.
C1_MutualExclusion ==
  \A p, q \in Procs : p # q => ~(Holding(p) /\ Holding(q))

\* the entry files holding an entry with the dedup key of e
WithKey(e) == {id \in getAllEntries(records, unreadable) : SameKey(records[id], e)}

BothReturned ==
  \A p \in Procs : pc[p] = "done" /\ result[p].status = "ok"

\* C2: when two processes concurrently add entries with the same dedup key and
\* both calls return, the store holds exactly one entry record for the key,
\* one call returned deduplicated = false and the other deduplicated = true
\* with the id the first one returned.
C2_RaceFreeDedup ==
  BothReturned =>
     /\ Cardinality(WithKey(E1)) = 1
     /\ \E p, q \in Procs :
           /\ p # q
           /\ ~result[p].flag
           /\ result[q].flag
           /\ result[q].id = result[p].id

\* a lock file whose creator is still inside writeFileSync
BeingWritten(m) == m.exists /\ ~m.written /\ pc[m.creator] = "write"

\* p's step unlinks the lock file from inside acquire()
WaiterUnlinks(p) ==
  /\ pc[p] \in {"unlinkStale", "unlinkCorrupt"}
  /\ pc'[p] = "loop"
  /\ marker.exists
  /\ ~marker'.exists

\* C3: a waiting acquire() deletes a lock marker only if the marker it deletes
\* records a time more than 5000 ms in the past or is unparseable, and never a
\* marker another process has just created or is still writing.
C3_StaleRemovalSafe ==
  [][\A p \in Procs :
        WaiterUnlinks(p) =>
           \/ marker.written /\ IsStale(marker, now)
           \/ ~marker.written /\ ~BeingWritten(marker)]_vars

\* the index holds exactly one projection per entry file, equal to the
\* projection of that file's entry, and counts the entry files
IndexMatches(recs, ix) ==
  /\ ix.state = "ok"
  /\ ix.totalEntries = Cardinality(DOMAIN recs)
  /\ Len(ix.entries) = Cardinality(DOMAIN recs)
  /\ \A i \in DOMAIN ix.entries : ix.entries[i].id \in DOMAIN recs
  /\ \A id \in DOMAIN recs :
        \E i \in DOMAIN ix.entries :
           /\ ix.entries[i] = toIndexEntry(recs[id])
           /\ ix.entries[i].id = id
           /\ \A j \in DOMAIN ix.entries : ix.entries[j].id = id => j = i

\* C4: after any sequence of completed addEntry, updateEntry and deleteEntry
\* calls of one process, the index holds exactly one projection per entry
\* record, each equal to its record's, and totalEntries counts the records.
C4_IndexCorrespondence ==
  pc[SeqProc] = "idle" => IndexMatches(records, index)

RebuildReturned(p) ==
  pc[p] = "done" /\ result[p].kind = "rebuildIndex" /\ result[p].status = "ok"

\* C5: from any store state, diverged or not, rebuildIndex() writes an index
\* whose entries are the projections of the readable entry records, with
\* totalEntries their number, and it changes no entry record.
C5_RebuildRecovers ==
  RebuildReturned(SeqProc) =>
     LET R == getAllEntries(records, unreadable)
     IN /\ index.state = "ok"
        /\ index.totalEntries = Cardinality(R)
        /\ Len(index.entries) = Cardinality(R)
        /\ {index.entries[i] : i \in DOMAIN index.entries}
              = {toIndexEntry(records[id]) : id \in R}
        /\ records = snap[SeqProc].records
        /\ unreadable = snap[SeqProc].unreadable

\* a rebuild has returned from a store whose index had diverged from entry
\* files of which one does not parse
C5_Witness ==
  /\ RebuildReturned(SeqProc)
  /\ unreadable # {}
  /\ snap[SeqProc].index.totalEntries # index.totalEntries
  /\ index.totalEntries > 0

AddReturned(p) ==
  pc[p] = "done" /\ result[p].kind = "addEntry" /\ result[p].status = "ok"

\* C6: two addEntry calls in a row with the same dedup key, the first of which
\* found no duplicate, return the same id, the second with deduplicated = true,
\* and getAllEntries() grows by exactly 1 over the two calls.
C6_DedupIdempotence ==
  (/\ AddReturned(SeqProc)
   /\ last # NoLast
   /\ ~last.flag
   /\ SameKey(last.entry, op[SeqProc].entry))
  => /\ result[SeqProc].id = last.id
     /\ result[SeqProc].flag
     /\ Cardinality(getAllEntries(records, unreadable)) = last.before + 1

\* C7: an addEntry that finds a duplicate writes nothing: the entry records
\* and the index file are what they were when the call started.
C7_DedupNoWrite ==
  (AddReturned(SeqProc) /\ result[SeqProc].flag)
  => /\ Snapshot = snap[SeqProc]
     /\ ~wrote[SeqProc]

\* a deduplicated add has returned, of an entry whose content differs from
\* the content of the record it matched
C7_Witness ==
  /\ AddReturned(SeqProc) /\ result[SeqProc].flag
  /\ result[SeqProc].id \in DOMAIN records
  /\ records[result[SeqProc].id].content # op[SeqProc].entry.content

\* C8: when a mutator that acquired the lock finishes, by a return, an early
\* return or a thrown error, the marker it created is gone.
C8_ScopedRelease ==
  \A p \in Procs :
     (pc[p] = "done" /\ owns[p]) => ~(marker.exists /\ marker.creator = p)

\* a mutator holding the lock has finished with an error thrown by a write
\* while another process was waiting for the lock
C8_Witness ==
  \E p, q \in Procs :
     /\ pc[p] = "done" /\ owns[p] /\ result[p].status = "error"
     /\ pc[q] \in AcquirePcs

C10_TimeoutLeavesStore ==
  [][\A p \in Procs :
        (pc[p] = "loop" /\ Elapsed(p) >= LOCK_TIMEOUT_MS /\ pc'[p] # pc[p]) =>
           /\ pc'[p] = "done"
           /\ result'[p] = Thrown(op[p].kind, "LockTimeout")
           /\ ~wrote'[p]
           /\ UNCHANGED <<marker, records, unreadable, index>>]_vars

\* a call has timed out while the other process holds the lock with its
\* marker in place
C10_Witness ==
  \E p, q \in Procs :
     /\ pc[p] = "done" /\ result[p].status = "LockTimeout" /\ ~wrote[p]
     /\ Holding(q) /\ marker.exists /\ marker.creator = q

\* the file of entry id is being written by a call that found it there
Rewriting(id) ==
  \E w \in Procs : pc[w] = "ent_flush" /\ ent[w].id = id /\ id \in DOMAIN snap[w].records

\* C11: an unlocked read running while another process mutates the store gets,
\* for a record file, its old or its new content: getEntry(id) gives null only
\* when the file of id is absent or is being created, and getIndex() falls back
\* to the empty index only when index.json is absent; never because the file
\* is empty or half written.
C11_NoTornReads ==
  [][\A p \in Procs :
        /\ (pc[p] = "get_read" /\ pc'[p] = "done" /\ ~result'[p].flag)
              => ~Rewriting(op[p].id)
        /\ (pc[p] = "idx_read" /\ pc'[p] = "done" /\ ~result'[p].flag)
              => index.state = "missing"]_vars

\* a call of the kinds ks has returned to its caller
Finished(p, ks) == pc[p] = "done" /\ op[p].kind \in ks

\* C12: for an id with no entry file, getEntry gives null, updateEntry gives
\* null and deleteEntry gives false; none of them throws, and the entry files
\* and the index file are what they were when the call started.
C12_NotFoundIsValue ==
  (/\ Finished(SeqProc, {"getEntry", "updateEntry", "deleteEntry"})
   /\ op[SeqProc].id \notin DOMAIN snap[SeqProc].records)
  => /\ result[SeqProc].status = "ok"
     /\ ~result[SeqProc].flag
     /\ Snapshot = snap[SeqProc]
     /\ ~wrote[SeqProc]

\* a delete of an id without a file has returned false on a store that holds
\* other entries
C12_Witness ==
  /\ Finished(SeqProc, {"deleteEntry"})
  /\ op[SeqProc].id \notin DOMAIN snap[SeqProc].records
  /\ ~result[SeqProc].flag
  /\ DOMAIN records # {}

UpdateReturned(p) ==
  /\ Finished(p, {"updateEntry", "cliUpdate"})
  /\ result[p].status = "ok" /\ result[p].flag

EntryFields == {"title", "content", "category", "tags", "source", "confidence"}

\* C13: updateEntry(id, updates) of an existing id stores the old record with
\* the update fields laid over it and the id of the call, whatever id the
\* updates carry; the first index projection of the id becomes the projection
\* of the new record; every other entry file and index projection is as before.
C13_UpdateEffect ==
  UpdateReturned(SeqProc) =>
     LET id == op[SeqProc].id
         u == op[SeqProc].updates
         was == snap[SeqProc]
     IN /\ DOMAIN records = DOMAIN was.records
        /\ unreadable = was.unreadable
        /\ records[id].id = id
        /\ \A f \in EntryFields :
              records[id][f] = IF f \in DOMAIN u THEN u[f] ELSE was.records[id][f]
        /\ \A j \in DOMAIN records \ {id} : records[j] = was.records[j]
        /\ Len(index.entries) = Len(was.index.entries)
        /\ \E i \in DOMAIN index.entries : was.index.entries[i].id = id
        /\ \A i \in DOMAIN index.entries :
              index.entries[i] =
                 IF i = FindIndex(was.index.entries, id)
                 THEN [id |-> id, title |-> records[id].title,
                       category |-> records[id].category, tags |-> records[id].tags,
                       confidence |-> records[id].confidence]
                 ELSE was.index.entries[i]

\* an update carrying another id has returned on a store with a second entry,
\* and has changed the projection of its entry
C13_Witness ==
  /\ UpdateReturned(SeqProc)
  /\ "id" \in DOMAIN op[SeqProc].updates /\ op[SeqProc].updates.id # op[SeqProc].id
  /\ DOMAIN records \ {op[SeqProc].id} # {}
  /\ index # snap[SeqProc].index
  /\ \E i \in DOMAIN index.entries :
        index.entries[i].id = op[SeqProc].id
        /\ index.entries[i] # snap[SeqProc].index.entries[i]

\* the entry files holding, when the call started, an entry with the key of e
HadKey(p, e) ==
  {id \in getAllEntries(snap[p].records, snap[p].unreadable) : SameKey(snap[p].records[id], e)}

\* C14: when extractKnowledge(path) gets from the extractor only titles that
\* the store already holds for that path, the run writes nothing: the number
\* of entry files and index.totalEntries are what they were before the run.
C14_CliDedup ==
  (/\ Finished(SeqProc, {"extract"})
   /\ result[SeqProc].status = "ok"
   /\ op[SeqProc].llm = "array"
   /\ \A i \in DOMAIN Extracted(op[SeqProc].id) :
         HadKey(SeqProc, makeEntry(Extracted(op[SeqProc].id)[i], op[SeqProc].id, "")) # {})
  => /\ Cardinality(DOMAIN records) = Cardinality(DOMAIN snap[SeqProc].records)
     /\ index.totalEntries = snap[SeqProc].index.totalEntries

\* C16: when the LLM call throws or answers text without a parseable JSON
\* array, extractKnowledge gives its caller a failure with a message, has added
\* no entry to the store, and has not added the path to the profile's sources.
C16_ExtractAllOrNothing ==
  (/\ Finished(SeqProc, {"extract"})
   /\ op[SeqProc].llm \in {"throws", "garbage"})
  => /\ result[SeqProc].status = "ExtractionFailed"
     /\ records = snap[SeqProc].records
     /\ index = snap[SeqProc].index
     /\ profile = snap[SeqProc].sources

\* no call is running
Quiet == \A p \in Procs : pc[p] \in {"idle", "done"}

\* C15: the CLI store's mutations of two processes do not interleave: once
\* both have finished, the index holds a projection for every entry file
\* (no index update is lost).
C15_CliSerialized ==
  Quiet => \A id \in DOMAIN records :
              \E i \in DOMAIN index.entries : index.entries[i].id = id

\* the raw score the ranking rules give an entry for a query: +10 and +5 for
\* the whole lower-cased query in title and content, and for every term +3
\* (title), +1 (content), +4 (equal to a tag), +2 (part of the category)
RuleRaw(query, e) ==
  LET ql == ToLowerCase(query)
      ts == queryTerms(ql)
      Hits(P(_)) == Cardinality({k \in DOMAIN ts : P(ts[k])})
      InTitle(t) == includes(ToLowerCase(e.title), t)
      InContent(t) == includes(ToLowerCase(e.content), t)
      IsTag(t) == \E i \in DOMAIN e.tags : ToLowerCase(e.tags[i]) = t
      InCategory(t) == includes(ToLowerCase(e.category), t)
  IN (IF InTitle(ql) THEN 10 ELSE 0) + (IF InContent(ql) THEN 5 ELSE 0)
     + 3 * Hits(InTitle) + Hits(InContent) + 4 * Hits(IsTag) + 2 * Hits(InCategory)

RuleFinal(query, e) == RuleRaw(query, e) * e.confidence

HasTerms(query) == queryTerms(ToLowerCase(query)) # <<>>

InResult(out, i) == \E k \in DOMAIN out : out[k] = i

RankedCli == calc.fn = "rank" /\ calc.cliDone

\* C17: for a query with a term of more than 2 characters findRelevantEntries
\* returns exactly the entries with a positive final score, in order of
\* non-increasing final score with ties in input order, cut to limit; for a
\* query without such a term it returns the first limit entries in input order.
C17_RankShape ==
  RankedCli =>
     LET es == calc.entries
         out == calc.cli
         F(i) == RuleFinal(calc.query, es[i])
         P == {i \in DOMAIN es : F(i) > 0}
         Before(i, j) == F(i) > F(j) \/ (F(i) = F(j) /\ i < j)
         Cut(n) == IF calc.limit < n THEN calc.limit ELSE n
     IN IF ~HasTerms(calc.query)
        THEN out = [k \in 1..Cut(Len(es)) |-> k]
        ELSE /\ Len(out) = Cut(Cardinality(P))
             /\ \A k \in DOMAIN out : out[k] \in P
             /\ \A k \in 1..(Len(out) - 1) : Before(out[k], out[k + 1])
             /\ \A i \in P : ~InResult(out, i) => \A k \in DOMAIN out : Before(out[k], i)

\* a ranking has left out an entry without score and cut off, by the limit,
\* one that ties with the last entry returned
C17_Witness ==
  /\ RankedCli /\ HasTerms(calc.query)
  /\ calc.cli # <<>>
  /\ \E i \in DOMAIN calc.entries : RuleFinal(calc.query, calc.entries[i]) = 0
  /\ \E i \in DOMAIN calc.entries :
        /\ ~InResult(calc.cli, i)
        /\ RuleFinal(calc.query, calc.entries[i])
              = RuleFinal(calc.query, calc.entries[calc.cli[Len(calc.cli)]])

\* entries alike in title, content, tags and category
Alike(e, f) == /\ e.title = f.title /\ e.content = f.content
               /\ e.tags = f.tags /\ e.category = f.category

C19_OneRanking ==
  (calc.fn = "rank" /\ calc.cliDone /\ calc.mcpDone) => calc.cli = calc.mcp

\* both copies have ranked a list whose order they changed
C19_Witness ==
  /\ calc.fn = "rank" /\ calc.cliDone /\ calc.mcpDone
  /\ Len(calc.mcp) >= 2
  /\ \E k \in 1..(Len(calc.mcp) - 1) : calc.mcp[k] > calc.mcp[k + 1]

\* C20: the coverage of a category with n entries and q questions is 0 when
\* n = 0, whatever q is, and min(80, 20 n) + min(20, 10 q) otherwise; it lies
\* between 0 and 100.
C20_Coverage ==
  (calc.fn = "coverage" /\ calc.done) =>
     LET n == calc.entryCount
         q == calc.questions
         c == calc.coverage
     IN /\ n = 0 => c = 0
        /\ n > 0 => c = (IF 20 * n < 80 THEN 20 * n ELSE 80)
                        + (IF 10 * q < 20 THEN 10 * q ELSE 20)
        /\ c \in 0..100

\* a category beyond both caps has been given its coverage
C20_Witness ==
  /\ calc.fn = "coverage" /\ calc.done
  /\ calc.entryCount > 4 /\ calc.questions > 2
  /\ calc.coverage = 100

GapDone == calc.fn = "gap" /\ calc.done

\* C21: the overall coverage of a successful report is round(100 k / r), r the
\* number of required categories of the handover type and k the number of
\* them with an entry; it is 100 exactly when all of them have an entry, and a
\* project without an architecture entry is below 100.
C21_OverallCoverage ==
  (GapDone /\ calc.out.success) =>
     LET req == CASE calc.type = "project" ->
                       {"architecture", "codebase", "tool", "convention", "process",
                        "decision"}
                  [] calc.type = "role" -> {"process", "people", "tool", "domain"}
                  [] calc.type = "team" -> {"people", "process", "convention", "tool"}
         r == Cardinality(req)
         k == Cardinality({c \in req : calc.entryCounts[c] > 0})
         v == calc.out.report.overallCoverage
     IN /\ \E n \in 0..100 : v = n /\ 2 * r * n <= 200 * k + r /\ 200 * k + r < 2 * r * (n + 1)
        /\ v = 100 <=> k = r
        /\ (calc.type = "project" /\ calc.entryCounts["architecture"] = 0) => v < 100

\* all required categories of a project but architecture have an entry, and
\* so have people, domain and other; questions were asked
C21_Witness ==
  /\ GapDone /\ calc.out.success
  /\ calc.type = "project"
  /\ calc.entryCounts["architecture"] = 0
  /\ \A c \in {"codebase", "tool", "convention", "process", "decision", "people",
               "domain", "other"} : calc.entryCounts[c] > 0
  /\ calc.questionCounts["people"] > 0
  /\ calc.out.report.overallCoverage = 83

\* C22: whatever text the model answers with, execute returns a successful
\* report; unless the text holds gaps and recommendations of the expected
\* shape, both are empty lists.
C22_PermissiveParsing ==
  GapDone =>
     /\ calc.out.success
     /\ LET wellFormed(v) == /\ v.t = "array"
                             /\ \A i \in DOMAIN v.items : v.items[i].t = "object"
        IN ~(calc.answer.kind = "json" /\ wellFormed(calc.answer.gaps)
               /\ wellFormed(calc.answer.recommendations))
           => /\ calc.out.report.gaps = <<>>
              /\ calc.out.report.recommendations = <<>>

FeedbackDone == calc.fn = "feedback" /\ calc.done

\* C23: a topic is reported as a weak area exactly when the ratings matched
\* to the questions that have it among their first three terms are at least 2
\* and at least 0.4 of them are negative; the areas reported are in order of
\* non-increasing negative count.
C23_WeakAreaThreshold ==
  FeedbackDone =>
     LET qf == calc.questionFeedback
         weak == calc.weakAreas
         Top(k) == Range(slice(tokenize(qf[k].key), 3))
         Topics == UNION {Top(k) : k \in DOMAIN qf}
         Ratings(t) == {<<k, n>> \in (DOMAIN qf) \X (1..(2 * MaxSessions * (MaxHistory + 1))) :
                           t \in Top(k) /\ n \in DOMAIN qf[k].value}
         Negatives(t) == {x \in Ratings(t) : qf[x[1]].value[x[2]].rating = "negative"}
     IN /\ \A t \in Topics :
             (\E i \in DOMAIN weak : weak[i].topic = t)
                <=> (/\ Cardinality(Ratings(t)) >= 2
                     /\ 5 * Cardinality(Negatives(t)) >= 2 * Cardinality(Ratings(t)))
        /\ \A i \in DOMAIN weak : weak[i].topic \in Topics
        /\ \A i \in 1..(Len(weak) - 1) : weak[i].negativeCount >= weak[i + 1].negativeCount

\* C28: the ratings matched to a question are, for each assistant message
\* that answers it, those of exactly one source: the embedded feedback, else
\* the records of the history with the position index of the message as
\* messageId, else the records less than 60 seconds from the message.
C28_MatchingPriority ==
  FeedbackDone =>
     LET ss == calc.sessions
         h == calc.feedbackHistory
         qf == calc.questionFeedback
         Places == {x \in (DOMAIN ss) \X (1..5) :
                      x[2] \in DOMAIN ss[x[1]] /\ ss[x[1]][x[2]].role = "assistant"}
         Msg(x) == ss[x[1]][x[2]]
         Replies(x, u) ==
            \E j \in 1..(x[2] - 1) :
               /\ ss[x[1]][j].role = "user" /\ ss[x[1]][j].content = u
               /\ \A m \in (j + 1)..(x[2] - 1) : ss[x[1]][m].role # "user"
         Embedded(x) == Msg(x).feedback.rating # "none"
         ById(x, j) == h[j].messageId = x[2] - 1
         Near(x, j) == /\ Msg(x).timestamp - h[j].timestamp < 60000
                       /\ h[j].timestamp - Msg(x).timestamp < 60000
         Uses(x, j) == /\ ~Embedded(x)
                       /\ IF \E m \in DOMAIN h : ById(x, m) THEN ById(x, j) ELSE Near(x, j)
         Expected(u, f) ==
            Cardinality({x \in Places : Replies(x, u) /\ Embedded(x) /\ Msg(x).feedback = f})
            + Cardinality({y \in Places \X DOMAIN h :
                             Replies(y[1], u) /\ Uses(y[1], y[2]) /\ h[y[2]] = f})
         Actual(u, f) ==
            Cardinality({y \in (DOMAIN qf) \X (1..(2 * MaxSessions * (MaxHistory + 1))) :
                           /\ qf[y[1]].key = u /\ y[2] \in DOMAIN qf[y[1]].value
                           /\ qf[y[1]].value[y[2]] = f})
         Users == {QuestionOne, QuestionTwo, QuestionTwice}
         Records == FeedbackPool \cup {Msg(x).feedback : x \in Places}
     IN /\ \A u \in Users : \A f \in Records : Actual(u, f) = Expected(u, f)
        /\ \A k \in DOMAIN qf : qf[k].key \in Users /\ qf[k].value # <<>>
        /\ \A k, m \in DOMAIN qf : qf[k].key = qf[m].key => k = m

\* an answer with embedded feedback met a record of the history with its
\* index, and an answer without met a record with its index and a nearer one
C28_Witness ==
  /\ FeedbackDone
  /\ \E k \in DOMAIN calc.sessions : \E i \in DOMAIN calc.sessions[k] :
        /\ calc.sessions[k][i].role = "assistant"
        /\ calc.sessions[k][i].feedback.rating # "none"
        /\ findPrecedingUserMessage(calc.sessions[k], i).found
        /\ \E j \in DOMAIN calc.feedbackHistory : calc.feedbackHistory[j].messageId = i - 1
  /\ \E k \in DOMAIN calc.sessions : \E i \in DOMAIN calc.sessions[k] :
        /\ calc.sessions[k][i].role = "assistant"
        /\ calc.sessions[k][i].feedback.rating = "none"
        /\ findPrecedingUserMessage(calc.sessions[k], i).found
        /\ \E j \in DOMAIN calc.feedbackHistory : calc.feedbackHistory[j].messageId = i - 1
        /\ \E j \in DOMAIN calc.feedbackHistory :
              /\ calc.feedbackHistory[j].messageId # i - 1
              /\ calc.feedbackHistory[j].timestamp - calc.sessions[k][i].timestamp < 60000
              /\ calc.sessions[k][i].timestamp - calc.feedbackHistory[j].timestamp < 60000

\* C24: whatever calls were made, every built-in id gives, through getSkill
\* and loadAllSkills, the hard-coded skill with usageCount 0 and successRate
\* 1; deleteSkill of a built-in id returns false; no skill file is named
\* after a built-in id.
C24_BuiltInsImmutable ==
  \A b \in BuiltInIds :
     /\ getSkill(skills, b, calls).found
     /\ getSkill(skills, b, calls).skill.prompt = "built-in prompt"
     /\ getSkill(skills, b, calls).skill.metadata.usageCount = 0
     /\ getSkill(skills, b, calls).skill.metadata.successRate = [num |-> 1, den |-> 1]
     /\ \A x \in loadAllSkills(skills, calls) :
           x[2].id = b => /\ x[1] = "built-in"
                          /\ x[2].prompt = "built-in prompt"
                          /\ x[2].metadata.usageCount = 0
                          /\ x[2].metadata.successRate = [num |-> 1, den |-> 1]
     /\ b \notin DOMAIN skills
     /\ (calc.fn = "deleteSkill" /\ calc.id = b) => ~calc.returned

\* evolveSkills has reported a built-in skill as improved, next to a
\* generated skill that has been used
C24_Witness ==
  /\ calc.fn = "evolveSkills" /\ calc.success
  /\ \E b \in BuiltInIds : b \in calc.improved
  /\ \E g \in DOMAIN skills : skills[g].metadata.usageCount > 0

\* C30: when evolveSkills has reported a skill with a file as improved, the
\* file holds another prompt than before, with the same id and usage counters.
C30_ImprovementApplied ==
  (calc.fn = "evolveSkills" /\ calc.success) =>
     \A id \in calc.improved \cap DOMAIN calc.before :
        /\ id \in DOMAIN skills
        /\ skills[id].id = id
        /\ skills[id].metadata.usageCount = calc.before[id].metadata.usageCount
        /\ skills[id].metadata.successRate = calc.before[id].metadata.successRate
        /\ skills[id].prompt # calc.before[id].prompt

C26_KeyUnique ==
  \A i, j \in DOMAIN records :
     (i # j /\ i \notin unreadable /\ j \notin unreadable) =>
        ~(/\ ToLowerCase(records[i].title) = ToLowerCase(records[j].title)
          /\ records[i].source.type = records[j].source.type
          /\ records[i].source.path = records[j].source.path)


\* C27: once the holder of the lock file has died, the caller that keeps
\* calling acquire() eventually gets the lock; and a call of acquire() times
\* out only when the dead holder's marker is still there and was at most
\* 5000 ms old when the call started, so a call that starts with an older
\* marker never raises the timeout error.
C27_CrashRecovery ==
  /\ [][(pc[Holder] = "dead" /\ pc[Caller] \in AcquirePcs /\ pc'[Caller] = "done") =>
          /\ marker.exists /\ marker.creator = Holder
          /\ start[Caller] - marker.time <= LOCK_TIMEOUT_MS]_vars
  /\ (pc[Holder] = "dead") ~> (Holding(Caller) /\ owns[Caller])

\* the caller, in a call that started with the dead holder's marker already
\* older than 5000 ms, has found the marker stale and is about to unlink it
C27_Witness ==
  /\ pc[Holder] = "dead" /\ marker.exists /\ marker.creator = Holder
  /\ pc[Caller] = "unlinkStale"
  /\ start[Caller] - marker.time > LOCK_TIMEOUT_MS


\* the readable entry files of an old directory
ReadableOld(old) == {i \in DOMAIN old.entries : old.entries[i].readable}

\* C25: handover_migrate never overwrites a profile or a feedback log that
\* the destination already has; entriesMigrated + entriesSkipped is the number
\* of readable old entries; and a second run on the same old directory, with
\* the destination as the first run left it, reports entriesMigrated = 0 and
\* leaves entry records, index, profile and feedback log unchanged.
C25_MigrateIdempotent ==
  calc.fn = "migrate" =>
    /\ calc.pre.dest.profile # "absent" => calc.post.dest.profile = calc.pre.dest.profile
    /\ calc.pre.dest.feedback # "absent" => calc.post.dest.feedback = calc.pre.dest.feedback
    /\ calc.report.entriesMigrated + calc.report.entriesSkipped
         = Cardinality(ReadableOld(calc.old))
    /\ (calc.prev.ran /\ calc.prev.old = calc.old /\ calc.prev.post = calc.pre) =>
         /\ calc.report.entriesMigrated = 0
         /\ calc.post = calc.pre

====
